---- MODULE Spec2Model ----
(***************************************************************************)
(* A model of the smell-analysis engine: the configuration handler, the    *)
(* architectural detector (src/code_quality_analyzer), the structural and  *)
(* code detectors and the entry points (pyexamine/src/...).                *)
(*                                                                         *)
(* Names.  A dotted name ("pkg.sub.mod") is the sequence of its atoms      *)
(* (<<"pkg","sub","mod">>).  A file path is a sequence of path components, *)
(* and a component is itself a dotted name: the file pkg/a.py is           *)
(* <<<<"pkg">>, <<"a">>>> and the file pkg.a.py is <<<<"pkg","a">>>>.  The *)
(* ".py" extension is implicit in the last component.                      *)
(***************************************************************************)
EXTENDS Integers, Sequences, FiniteSets, TLC

\* ------------------------------------------------------------------ bounds
MaxFiles == 2

\* ----------------------------------------------------------------- helpers
Range(s) == {s[i] : i \in 1..Len(s)}

RECURSIVE Flatten(_)
Flatten(ss) == IF ss = <<>> THEN <<>> ELSE Head(ss) \o Flatten(Tail(ss))

LastN(s, n) == IF Len(s) <= n THEN s ELSE SubSeq(s, Len(s) - n + 1, Len(s))

AppendNew(s, x) == IF x \in Range(s) THEN s ELSE Append(s, x)

RECURSIVE SeqOfSet(_)
SeqOfSet(S) == IF S = {} THEN <<>>
               ELSE LET x == CHOOSE y \in S : TRUE IN <<x>> \o SeqOfSet(S \ {x})

FlatMap(seq, F(_)) == Flatten([i \in 1..Len(seq) |-> F(seq[i])])

RECURSIVE SelectSeqBy(_, _)
SelectSeqBy(s, T) == IF s = <<>> THEN <<>>
                     ELSE IF Head(s) \in T THEN <<Head(s)>> \o SelectSeqBy(Tail(s), T)
                     ELSE SelectSeqBy(Tail(s), T)

\* Ordered dictionaries (dict / defaultdict): a sequence of keys in insertion
\* order and the value of each key.
EmptyDict == [keys |-> <<>>, val |-> <<>>]
DictHas(d, k) == k \in Range(d.keys)
DictIdx(d, k) == CHOOSE i \in 1..Len(d.keys) : d.keys[i] = k
DictGet(d, k, default) == IF DictHas(d, k) THEN d.val[DictIdx(d, k)] ELSE default
DictPut(d, k, v) == IF DictHas(d, k)
                    THEN [d EXCEPT !.val[DictIdx(d, k)] = v]
                    ELSE [keys |-> Append(d.keys, k), val |-> Append(d.val, v)]

\* ------------------------------------------------------- the analysed tree
\* The directory argument: "." contributes no component to a joined path,
\* a named directory contributes (at least) its own name.
Directories == {<<>>, <<<<"proj">>>>}

\* import statements: `import X` (isFrom = FALSE) or
\* `from <level dots>X import names`
Imp(m) == [isFrom |-> FALSE, level |-> 0, module |-> m, names |-> <<>>]
ImpFrom(l, m, ns) == [isFrom |-> TRUE, level |-> l, module |-> m, names |-> ns]

\* One source file's content, as far as the detectors look at it: ok = the
\* file decodes and parses, imports = its import statements, funcs = its
\* top-level function definitions, calls = the attribute names of its
\* module-level calls `x.name(...)`, classes = its top-level classes, lines =
\* its source lines.
Content(ok, imports, funcs, calls, classes, lines) ==
    [ok |-> ok, imports |-> imports, funcs |-> funcs, calls |-> calls,
     classes |-> classes, lines |-> lines]

\* A top-level function: lines = the non-blank, non-comment lines of its
\* span, params = its parameter names.  The functions of the analysed tree
\* carry no decorator and no annotation, and their bodies hold no call by
\* bare name, no attribute access and no if/else chain.
Def(name, lines, params) == [name |-> name, lines |-> lines, params |-> params]

\* Methods and classes of a file, as the detectors measure them:
\* attrs = the `self.<attr>` names read or written in the body, calls = the
\* attribute names called (x.name(...)), complexity = the value of
\* calculate_cyclomatic_complexity, simple = no if/while/for/try in the body,
\* branches / nesting = the values of _analyze_branches, trivial = the body
\* is one return or assignment statement.
Method(name, isProperty, attrs, calls, complexity, branches, nesting, trivial) ==
    [name |-> name, isProperty |-> isProperty, attrs |-> attrs, calls |-> calls,
     complexity |-> complexity, simple |-> (branches = 0),
     branches |-> branches, nesting |-> nesting, trivial |-> trivial]

\* bases = the base classes as written, each a dotted name
Class(name, bases, methods, fields) ==
    [name |-> name, bases |-> bases, methods |-> methods, fields |-> fields]

M_init   == Method("__init__", FALSE, {"x", "y"}, {}, 1, 0, 0, FALSE)
M_run    == Method("run", FALSE, {"x"}, {"load"}, 2, 1, 1, FALSE)
M_load   == Method("load", FALSE, {"y"}, {"send"}, 1, 0, 0, FALSE)
M_helper == Method("_helper", FALSE, {}, {}, 1, 0, 0, TRUE)

ClassBig   == Class("Big", <<>>, <<M_init, M_run, M_load, M_helper>>, {"x"})
ClassEmpty == Class("Empty", <<<<"Big">>>>, <<>>, {})

\* Source lines by what the line classifiers test on the stripped line.
LineKinds == {"blank", "comment", "triple", "import", "code"}

\* The file contents the analysed tree is drawn from.
K_bad   == Content(FALSE, <<>>, <<>>, <<>>, <<>>, <<"code">>)
K_empty == Content(TRUE, <<>>, <<>>, <<>>, <<>>, <<"comment">>)
K_imp_a == Content(TRUE, <<Imp(<<"a">>)>>, <<Def("run", 1, <<>>)>>, <<>>, <<>>,
                   <<"import", "code">>)
K_imp_b == Content(TRUE, <<Imp(<<"b">>)>>,
                   <<Def("run", 1, <<"p", "q">>), Def("load", 2, <<>>)>>,
                   <<"send", "send", "send">>, <<>>,
                   <<"import", "code", "code", "code">>)
K_from  == Content(TRUE, <<ImpFrom(1, <<"a">>, <<"run">>), Imp(<<"proj", "a">>)>>,
                   <<Def("_p", 2, <<>>)>>, <<>>, <<ClassEmpty>>,
                   <<"import", "import", "code", "code">>)
K_cls   == Content(TRUE, <<Imp(<<"os">>), Imp(<<"numpy">>)>>, <<>>, <<"send">>,
                   <<ClassBig>>,
                   <<"triple", "code", "triple", "import", "import", "code", "code">>)

Contents == {K_bad, K_empty, K_imp_a, K_imp_b, K_from, K_cls}

\* The file paths of the analysed tree, relative to the directory argument.
P_a    == <<<<"a">>>>
P_b    == <<<<"b">>>>
P_pkga == <<<<"pkg">>, <<"a">>>>
P_dot  == <<<<"pkg", "a">>>>
P_lib  == <<<<"lib">>, <<"utils">>, <<"a">>>>

Paths == {P_a, P_b, P_pkga, P_dot, P_lib}

DirOf(path) == SubSeq(path, 1, Len(path) - 1)
IsPrefix(s, t) == Len(s) <= Len(t) /\ SubSeq(t, 1, Len(s)) = s

\* os.walk is top-down: the files of a directory come before the files of
\* its subdirectories and every subtree is walked in one piece; the order
\* inside one directory is the file system's.
IsWalkOrder(fs) ==
    /\ \A i, j \in 1..Len(fs) : i # j => fs[i].path # fs[j].path
    /\ \A i, j \in 1..Len(fs) :
         i < j => ~(DirOf(fs[j].path) # DirOf(fs[i].path)
                    /\ IsPrefix(DirOf(fs[j].path), DirOf(fs[i].path)))
    /\ \A i, j, k \in 1..Len(fs) :
         (i < j /\ j < k) =>
            \A n \in 1..Len(DirOf(fs[i].path)) :
               (IsPrefix(SubSeq(fs[i].path, 1, n), DirOf(fs[k].path))
                  => IsPrefix(SubSeq(fs[i].path, 1, n), DirOf(fs[j].path)))

Files == [path : Paths, content : Contents]

Projects == {fs \in UNION {[1..n -> Files] : n \in 0..MaxFiles} : IsWalkOrder(fs)}

\* os.path.join(root, file) for the directory argument d
FullPath(d, path) == d \o path


\* -------------------------------------------------------- names and words
\* `word in name.lower()` for a dotted name: the words tested contain no
\* dot, so the test is decided atom by atom; AtomContains lists, for the
\* atoms and names of this model, the tested words each contains.
AtomContains(atom, word) ==
    <<atom, word>> \in {<<"utils", "utils">>, <<"utils", "util">>,
                        <<"_helper", "helper">>}

NameContains(name, word) == \E i \in 1..Len(name) : AtomContains(name[i], word)

NameContainsAny(name, words) == \E w \in words : NameContains(name, w)

\* len(name), name.startswith(...) for the function names of this model
StrLen(n) == CASE n = "run" -> 3 [] n = "load" -> 4 [] n = "_p" -> 2
               [] n = "send" -> 4 [] n = "__init__" -> 8 [] n = "_helper" -> 7
               [] n = "is_ready" -> 8
               [] OTHER -> 5
StartsWith(n, prefix) ==
    <<n, prefix>> \in {<<"_p", "_">>, <<"_helper", "_">>, <<"__init__", "_">>,
                       <<"__init__", "__">>, <<"is_ready", "is_">>}
EndsWith(n, suffix) == <<n, suffix>> \in {<<"__init__", "__">>}
StartsWithAny(n, prefixes) == \E q \in prefixes : StartsWith(n, q)

\* sys.stdlib_module_names and the installed distributions, as far as the
\* names of this model go
StartsWithStdlibName(dep) == dep # <<>> /\ dep[1] \in {"os"}
FindSpec(atom) == atom \in {"os", "numpy"}

\* ------------------------------------------------------------- the graph
EmptyGraph == [nodes |-> <<>>, edges |-> {}]
AddNode(g, n) == [g EXCEPT !.nodes = AppendNew(g.nodes, n)]
AddEdge(g, u, v) == [nodes |-> AppendNew(AppendNew(g.nodes, u), v),
                     edges |-> g.edges \cup {<<u, v>>}]
RemoveEdge(g, u, v) == [g EXCEPT !.edges = g.edges \ {<<u, v>>}]
RemoveNode(g, n) == [nodes |-> SelectSeq(g.nodes, LAMBDA x : x # n),
                     edges |-> {e \in g.edges : e[1] # n /\ e[2] # n}]
Successors(g, n) == {e[2] : e \in {d \in g.edges : d[1] = n}}
Predecessors(g, n) == {e[1] : e \in {d \in g.edges : d[2] = n}}
InDegree(g, n) == Cardinality(Predecessors(g, n))
OutDegree(g, n) == Cardinality(Successors(g, n))
NodeIdx(g, n) == CHOOSE i \in 1..Len(g.nodes) : g.nodes[i] = n

\* ------------------------------------------------------------ thresholds
\* A threshold bundle is a function from the configured names to values;
\* ratios are kept in hundredths (0.5 is 50).
NoThresholds == [k \in {} |-> 0]
Thr(t, key, default) == IF key \in DOMAIN t THEN t[key] ELSE default

ArchSmall == [k \in {"HUB_LIKE_DEPENDENCY_THRESHOLD", "MIN_HUB_CONNECTIONS",
                     "MIN_SCATTERED_OCCURRENCES", "REDUNDANT_SIMILARITY_THRESHOLD",
                     "MIN_GOD_OBJECT_FUNCTIONS", "GOD_OBJECT_FUNCTIONS",
                     "MIN_API_CALLS", "API_REPETITION_THRESHOLD", "MIN_PROJECT_SIZE",
                     "MIN_CYCLE_SIZE", "MAX_CYCLE_SIZE", "MIN_DEPENDENCIES",
                     "UNSTABLE_DEPENDENCY_THRESHOLD"} |->
                CASE k = "HUB_LIKE_DEPENDENCY_THRESHOLD" -> 50
                  [] k = "MIN_HUB_CONNECTIONS" -> 2
                  [] k = "MIN_SCATTERED_OCCURRENCES" -> 2
                  [] k = "REDUNDANT_SIMILARITY_THRESHOLD" -> 80
                  [] k = "MIN_GOD_OBJECT_FUNCTIONS" -> 1
                  [] k = "GOD_OBJECT_FUNCTIONS" -> 1
                  [] k = "MIN_API_CALLS" -> 3
                  [] k = "API_REPETITION_THRESHOLD" -> 40
                  [] k = "MIN_PROJECT_SIZE" -> 1
                  [] k = "MIN_CYCLE_SIZE" -> 2
                  [] k = "MAX_CYCLE_SIZE" -> 5
                  [] k = "MIN_DEPENDENCIES" -> 1
                  [] OTHER -> 50]

Without(t, keys) == [k \in (DOMAIN t) \ keys |-> t[k]]

StructSmall == [k \in {"NOM_THRESHOLD", "LCOM_THRESHOLD", "RFC_THRESHOLD",
                       "NOCC_THRESHOLD", "DIT_THRESHOLD", "LOC_THRESHOLD",
                       "NOC_THRESHOLD", "CYCLOMATIC_COMPLEXITY_THRESHOLD",
                       "MAX_FANOUT", "MAX_FANIN", "MAX_FILE_LENGTH", "MAX_BRANCHES",
                       "WMPC1_THRESHOLD", "WMPC2_THRESHOLD", "SIZE2_THRESHOLD",
                       "WAC_THRESHOLD", "CBO_THRESHOLD"} |->
                  CASE k = "LCOM_THRESHOLD" -> 0
                    [] k = "MAX_FILE_LENGTH" -> 2
                    [] k = "LOC_THRESHOLD" -> 2
                    [] OTHER -> 1]

CodeSmall == [k \in {"LONG_METHOD_LINES", "LARGE_CLASS_METHODS", "PRIMITIVE_OBSESSION_COUNT",
                     "LONG_PARAMETER_LIST", "DATA_CLUMPS_THRESHOLD", "COMPLEX_CONDITIONAL",
                     "TEMPORARY_FIELD_THRESHOLD", "ALTERNATIVE_CLASSES_THRESHOLD",
                     "DIVERGENT_CHANGE_PREFIXES", "DIVERGENT_CHANGE_METHODS",
                     "SHOTGUN_SURGERY_CALLS", "SHOTGUN_SURGERY_CONTEXTS",
                     "EXCESSIVE_COMMENTS_RATIO", "LARGE_COMMENT_BLOCKS",
                     "DUPLICATE_CODE_MIN_LINES", "DUPLICATE_CODE_THRESHOLD",
                     "SPECULATIVE_GENERALITY_THRESHOLD", "UNUSED_PARAMETERS_THRESHOLD",
                     "FEATURE_ENVY_CALLS", "INAPPROPRIATE_INTIMACY_SHARED",
                     "MESSAGE_CHAIN_LENGTH", "MIDDLE_MAN_RATIO"} |->
                CASE k = "EXCESSIVE_COMMENTS_RATIO" -> 30
                  [] k = "MIDDLE_MAN_RATIO" -> 50
                  [] k = "DATA_CLUMPS_THRESHOLD" -> 3
                  [] k = "DUPLICATE_CODE_THRESHOLD" -> 2
                  [] OTHER -> 1]

\* The threshold bundles the detectors are constructed with.
ThresholdChoices ==
    {[code |-> NoThresholds, arch |-> NoThresholds, struct |-> NoThresholds],
     [code |-> CodeSmall, arch |-> ArchSmall, struct |-> StructSmall],
     [code |-> Without(CodeSmall, {"LARGE_CLASS_METHODS", "MESSAGE_CHAIN_LENGTH"}),
      arch |-> Without(ArchSmall, {"GOD_OBJECT_FUNCTIONS", "UNSTABLE_DEPENDENCY_THRESHOLD"}),
      struct |-> Without(StructSmall, {"NOM_THRESHOLD", "LCOM_THRESHOLD", "RFC_THRESHOLD",
                                       "DIT_THRESHOLD", "LOC_THRESHOLD"})]}

\* =========================================================================
\* ConfigHandler (src/code_quality_analyzer/config_handler.py)
\* =========================================================================
\* A configured value: a number, or something else (a string, None, a list).
Num(n) == [isNumber |-> TRUE, v |-> n]
NotANumber == [isNumber |-> FALSE, v |-> 0]

Sections == {"code_smells", "architectural_smells", "structural_smells"}

\* A configuration file: status = "ok" (it exists and is well-formed YAML),
\* "missing" or "malformed"; sections = its top-level entries.
ConfigFile(status, sections) == [status |-> status, sections |-> sections]

\* the YAML file whose entries hold the numbers of one threshold bundle
ConfigOf(t) ==
    ConfigFile("ok",
       [code_smells |-> [k \in DOMAIN t.code |-> Num(t.code[k])],
        architectural_smells |-> [k \in DOMAIN t.arch |-> Num(t.arch[k])],
        structural_smells |-> [k \in DOMAIN t.struct |-> Num(t.struct[k])]])

\* the numbers of a section of thresholds, as a detector reads them
Numbers(section) == [k \in DOMAIN section |-> section[k].v]

VARIABLES
    config,              \* the content of the configuration file
    config_thresholds,   \* ConfigHandler.thresholds
    config_log,          \* the warnings _validate_thresholds has logged
    config_pc,           \* "new", "ready", "raised"
    config_handed        \* the last answer of get_thresholds

configVars == <<config, config_thresholds, config_log, config_pc, config_handed>>

\* load_thresholds: a section the file lacks is loaded empty
load_thresholds(file) ==
    [s \in Sections |-> IF s \in DOMAIN file.sections THEN file.sections[s] ELSE <<>>]

required_structural_thresholds ==
    {"NOM_THRESHOLD", "WMPC1_THRESHOLD", "WMPC2_THRESHOLD", "SIZE2_THRESHOLD",
     "WAC_THRESHOLD", "LCOM_THRESHOLD", "RFC_THRESHOLD", "NOCC_THRESHOLD",
     "DIT_THRESHOLD", "LOC_THRESHOLD", "CBO_THRESHOLD"}

\* _validate_thresholds: the warnings it logs; the thresholds stay as loaded
validate_thresholds(thresholds) ==
    LET structural_thresholds == thresholds["structural_smells"]
    IN  {[kind |-> "missing", threshold |-> k] :
            k \in required_structural_thresholds \ DOMAIN structural_thresholds}
        \cup
        {[kind |-> "invalid", threshold |-> k] :
            k \in {q \in DOMAIN structural_thresholds :
                      ~structural_thresholds[q].isNumber \/ structural_thresholds[q].v <= 0}}

get_thresholds(thresholds, smell_type) ==
    IF smell_type \in DOMAIN thresholds THEN thresholds[smell_type] ELSE <<>>

NothingHanded == [smell_type |-> "None", thresholds |-> <<>>]

\* ConfigHandler(config_path): a missing or malformed file raises
ConfigConstruct ==
    /\ config_pc = "new"
    /\ IF config.status # "ok"
       THEN /\ config_pc' = "raised"
            /\ UNCHANGED <<config_thresholds, config_log>>
       ELSE /\ config_pc' = "ready"
            /\ config_thresholds' = load_thresholds(config)
            /\ config_log' = validate_thresholds(load_thresholds(config))
    /\ UNCHANGED <<config, config_handed>>

ConfigGetThresholds ==
    /\ config_pc = "ready"
    /\ \E smell_type \in Sections \cup {"other_smells"} :
          config_handed' = [smell_type |-> smell_type,
                            thresholds |-> get_thresholds(config_thresholds, smell_type)]
    /\ UNCHANGED <<config, config_thresholds, config_log, config_pc>>

\* ------------------------------------------------------------------ state
VARIABLES
    directory,              \* the directory argument of the run
    project,                \* the files under it, in the order os.walk yields them
    \* ArchitecturalSmellDetector
    arch_thresholds, module_dependencies, module_functions, api_usage,
    file_paths, external_dependencies, architectural_smells,
    arch_pc,                \* "walk", "resolve", "detect", "done", "raised"
    arch_i,                 \* index of the next file
    arch_ran,               \* the detection methods called so far, in order
    arch_error              \* the CodeAnalysisError that left detect_smells

archVars == <<arch_thresholds, module_dependencies, module_functions, api_usage,
              file_paths, external_dependencies, architectural_smells,
              arch_pc, arch_i, arch_ran, arch_error>>

NoError == [raised |-> FALSE, file_path |-> <<>>, function_name |-> "None"]
CodeAnalysisError(file_path, function_name) ==
    [raised |-> TRUE, file_path |-> file_path, function_name |-> function_name]

Unknown == <<<<"Unknown">>>>

Smell(name, file_path, module_class, severity) ==
    [name |-> name, file_path |-> file_path, module_class |-> module_class,
     severity |-> severity]

\* ---------------------------------- ArchitecturalSmellDetector.analyze_file
\* relpath(file_path, dirname(dirname(file_path))) with the separators
\* replaced by dots and ".py" cut off: the last two path components.
ArchModuleName(d, path) == Flatten(LastN(FullPath(d, path), 2))

ArchImportName(module_name, st) ==
    IF st.isFrom /\ st.level > 0
    THEN LET parent == IF st.level >= Len(module_name) THEN <<>>
                       ELSE SubSeq(module_name, 1, Len(module_name) - st.level)
         IN  IF parent # <<>> THEN parent \o st.module ELSE st.module
    ELSE st.module

RECURSIVE ArchAddImports(_, _, _, _)
ArchAddImports(g, mf, module_name, imports) ==
    IF imports = <<>> THEN [g |-> g, mf |-> mf]
    ELSE LET st == Head(imports)
             import_name == ArchImportName(module_name, st)
             g2 == AddEdge(g, module_name, import_name)
             mf2 == IF st.isFrom /\ st.names # <<>>
                    THEN DictPut(mf, import_name,
                                 DictGet(mf, import_name, {}) \cup Range(st.names))
                    ELSE mf
         IN  ArchAddImports(g2, mf2, module_name, Tail(imports))

\* ast.walk(tree): every FunctionDef of the file, the methods included, and
\* every call of an attribute
FunctionNames(content) ==
    {content.funcs[i].name : i \in 1..Len(content.funcs)}
       \cup UNION {{c.methods[i].name : i \in 1..Len(c.methods)} : c \in Range(content.classes)}

RECURSIVE MethodCalls(_)
MethodCalls(methods) ==
    IF methods = <<>> THEN <<>>
    ELSE SeqOfSet(Head(methods).calls) \o MethodCalls(Tail(methods))

AttributeCalls(content) ==
    content.calls \o FlatMap(content.classes, LAMBDA c : MethodCalls(c.methods))

\* analyze_file with the module registered before the file is parsed
ArchAnalyzeFile_RecordsBeforeParse ==
    /\ arch_pc = "walk"
    /\ arch_i <= Len(project)
    /\ LET f == project[arch_i]
           module_name == ArchModuleName(directory, f.path)
           withImports == ArchAddImports(AddNode(module_dependencies, module_name),
                                         module_functions, module_name,
                                         f.content.imports)
       IN  /\ file_paths' = DictPut(file_paths, module_name, FullPath(directory, f.path))
           /\ IF ~f.content.ok
              THEN /\ module_dependencies' = AddNode(module_dependencies, module_name)
                   /\ UNCHANGED <<module_functions, api_usage>>
              ELSE /\ module_dependencies' = withImports.g
                   /\ module_functions' =
                        IF FunctionNames(f.content) = {} THEN withImports.mf
                        ELSE DictPut(withImports.mf, module_name,
                                     DictGet(withImports.mf, module_name, {})
                                        \cup FunctionNames(f.content))
                   /\ api_usage' =
                        IF AttributeCalls(f.content) = <<>> THEN api_usage
                        ELSE DictPut(api_usage, module_name,
                                     DictGet(api_usage, module_name, <<>>)
                                        \o AttributeCalls(f.content))
    /\ arch_i' = arch_i + 1
    /\ UNCHANGED <<arch_thresholds, external_dependencies, architectural_smells,
                   arch_pc, arch_ran, arch_error>>

ArchAnalyzeFile ==
    /\ arch_pc = "walk"
    /\ arch_i <= Len(project)
    /\ LET f == project[arch_i]
           module_name == ArchModuleName(directory, f.path)
           withImports == ArchAddImports(AddNode(module_dependencies, module_name),
                                         module_functions, module_name,
                                         f.content.imports)
       IN  IF ~f.content.ok
           THEN \* SyntaxError / decode error: printed, nothing recorded
                UNCHANGED <<module_dependencies, module_functions, api_usage, file_paths>>
           ELSE /\ module_dependencies' = withImports.g
                /\ file_paths' = DictPut(file_paths, module_name,
                                         FullPath(directory, f.path))
                /\ module_functions' =
                     IF FunctionNames(f.content) = {} THEN withImports.mf
                     ELSE DictPut(withImports.mf, module_name,
                                  DictGet(withImports.mf, module_name, {})
                                     \cup FunctionNames(f.content))
                /\ api_usage' =
                     IF AttributeCalls(f.content) = <<>> THEN api_usage
                     ELSE DictPut(api_usage, module_name,
                                  DictGet(api_usage, module_name, <<>>)
                                     \o AttributeCalls(f.content))
    /\ arch_i' = arch_i + 1
    /\ UNCHANGED <<arch_thresholds, external_dependencies, architectural_smells,
                   arch_pc, arch_ran, arch_error>>

\* ------------------ ArchitecturalSmellDetector.resolve_external_dependencies
Exists(path) == \E i \in 1..Len(project) : FullPath(directory, project[i].path) = path

ProjectRoot(fp) == LET first == fp.val[1]
                   IN  IF Len(first) <= 2 THEN <<>> ELSE SubSeq(first, 1, Len(first) - 2)

IsProjectModule(dependency, all_modules, project_root) ==
    \/ dependency \in all_modules
    \/ Exists(project_root \o [i \in 1..Len(dependency) |-> <<dependency[i]>>])
    \/ Exists(project_root \o <<<<dependency[1]>>, <<"__init__">>>>)

ResolveDependency(st, module, dependency, all_modules, project_root) ==
    IF IsProjectModule(dependency, all_modules, project_root) THEN st
    ELSE LET is_stdlib == StartsWithStdlibName(dependency)
             is_third_party == FindSpec(dependency[1]) /\ ~is_stdlib
             g1 == RemoveEdge(st.g, module, dependency)
             ext1 == IF is_stdlib
                     THEN DictPut(st.ext, module,
                                  DictGet(st.ext, module, {}) \cup {<<"stdlib", dependency>>})
                     ELSE IF is_third_party
                     THEN DictPut(st.ext, module,
                                  DictGet(st.ext, module, {}) \cup {<<"third_party", dependency>>})
                     ELSE st.ext
             g2 == IF InDegree(g1, dependency) = 0 /\ OutDegree(g1, dependency) = 0
                   THEN RemoveNode(g1, dependency) ELSE g1
         IN  [g |-> g2, ext |-> ext1, raised |-> FALSE]

RECURSIVE ResolveDependencies(_, _, _, _, _)
ResolveDependencies(st, module, deps, all_modules, project_root) ==
    IF deps = <<>> THEN st
    ELSE ResolveDependencies(
            ResolveDependency(st, module, Head(deps), all_modules, project_root),
            module, Tail(deps), all_modules, project_root)

\* the loop over list(nodes()): successors() of a node that an earlier
\* iteration removed raises NetworkXError
RECURSIVE ResolveModules(_, _, _, _)
ResolveModules(st, modules, all_modules, project_root) ==
    IF modules = <<>> \/ st.raised THEN st
    ELSE IF Head(modules) \notin Range(st.g.nodes) THEN [st EXCEPT !.raised = TRUE]
    ELSE ResolveModules(
            ResolveDependencies(st, Head(modules),
                                SeqOfSet(Successors(st.g, Head(modules))),
                                all_modules, project_root),
            Tail(modules), all_modules, project_root)

resolve_external_dependencies(g, ext, fp) ==
    IF fp.keys = <<>>
    THEN [g |-> g, ext |-> ext, raised |-> TRUE]      \* next(iter({})): StopIteration
    ELSE ResolveModules([g |-> g, ext |-> ext, raised |-> FALSE], g.nodes,
                        Range(g.nodes), ProjectRoot(fp))

\* analyze_directory after its file loop; an exception leaves detect_smells
\* through its outer handler as CodeAnalysisError(file_path = directory)
ArchResolve ==
    /\ arch_pc = "walk"
    /\ arch_i > Len(project)
    /\ LET r == resolve_external_dependencies(module_dependencies,
                                              external_dependencies, file_paths)
       IN  /\ module_dependencies' = r.g
           /\ external_dependencies' = r.ext
           /\ arch_pc' = IF r.raised THEN "raised" ELSE "detect"
           /\ arch_error' = IF r.raised THEN CodeAnalysisError(directory, "None")
                            ELSE arch_error
    /\ arch_i' = arch_i
    /\ UNCHANGED <<arch_thresholds, module_functions, api_usage, file_paths,
                   architectural_smells, arch_ran>>


\* ------------------------------------------ architectural detection methods
\* Each method is given the detector's tables and returns the findings it
\* appends, whether it raised, and the external-dependency table (a
\* defaultdict, which a lookup of a missing key extends).

RECURSIVE SumSeq(_)
SumSeq(seq) == IF seq = <<>> THEN 0 ELSE Head(seq) + SumSeq(Tail(seq))

Result(smells, raised, ext) == [smells |-> smells, raised |-> raised, ext |-> ext]

\* severity='high' if total_connections > min_connections * 2 else 'medium'
HubSeverity(total_connections, min_connections) ==
    IF total_connections > min_connections * 2 THEN "high" ELSE "medium"

detect_hub_like_dependency(g, mf, au, fp, ext, thr) ==
    LET total_modules == Len(g.nodes)
        threshold == Thr(thr, "HUB_LIKE_DEPENDENCY_THRESHOLD", 50)
        min_connections == Thr(thr, "MIN_HUB_CONNECTIONS", 5)
        Hub(node) ==
            LET in_degree == InDegree(g, node)
                out_degree == OutDegree(g, node)
                external_deps == Cardinality(DictGet(ext, node, {}))
                total_connections == in_degree + out_degree + external_deps
                is_hub == /\ total_connections >= min_connections
                          /\ total_connections * 100 > threshold * total_modules
                \* 0.2 <= fan_in_ratio / (fan_out_ratio + 0.0001) <= 5
                is_balanced ==
                    /\ 50000 * in_degree >= 10000 * (out_degree + external_deps) + total_modules
                    /\ 10000 * in_degree <= 5 * (10000 * (out_degree + external_deps) + total_modules)
            IN  IF is_hub
                   /\ ~NameContainsAny(node, {"util", "common", "base", "core"})
                   /\ ~is_balanced
                THEN <<Smell("Hub-like Dependency", DictGet(fp, node, Unknown), node,
                             HubSeverity(total_connections, min_connections))>>
                ELSE <<>>
        RECURSIVE Touch(_, _)
        Touch(d, nodes) == IF nodes = <<>> THEN d
                           ELSE Touch(IF DictHas(d, Head(nodes)) THEN d
                                      ELSE DictPut(d, Head(nodes), {}), Tail(nodes))
    IN  IF total_modules < 3 THEN Result(<<>>, FALSE, ext)
        ELSE Result(FlatMap(g.nodes, Hub), FALSE, Touch(ext, g.nodes))

\* the functions of every module that pass the name filter, with the
\* modules each appears in (in the order of the table)
ScatteredName(func) ==
    /\ StrLen(func) >= 3
    /\ func \notin {"main", "init", "setup", "test"}
    /\ ~StartsWith(func, "_")

ModulesOf(mf, func) ==
    SelectSeq(mf.keys, LAMBDA m : func \in DictGet(mf, m, {}))

\* the function names detect_scattered_functionality makes a finding for
ScatteredFunctions(mf, thr) ==
    LET min_occurrences == Thr(thr, "MIN_SCATTERED_OCCURRENCES", 3)
    IN  {f \in UNION Range(mf.val) :
           ScatteredName(f) /\ Len(ModulesOf(mf, f)) >= min_occurrences}

detect_scattered_functionality(g, mf, au, fp, ext, thr) ==
    LET One(func) ==
            LET modules == ModulesOf(mf, func)
            IN  <<Smell("Scattered Functionality",
                        DictGet(fp, modules[1], Unknown), modules[1], "medium")>>
    IN  Result(FlatMap(SeqOfSet(ScatteredFunctions(mf, thr)), One), FALSE, ext)

detect_redundant_abstractions(g, mf, au, fp, ext, thr) ==
    LET min_functions == 3
        Public(m) == {f \in DictGet(mf, m, {}) :
                        /\ ~StartsWith(f, "_")
                        /\ StrLen(f) > 3
                        /\ f \notin {"main", "init", "setup", "test"}}
        candidates == SelectSeq(mf.keys, LAMBDA m :
                         /\ Cardinality(DictGet(mf, m, {})) >= min_functions
                         /\ Public(m) # {})
        similarity_threshold == Thr(thr, "REDUNDANT_SIMILARITY_THRESHOLD", 80)
        Pair(i, j) ==
            LET f1 == DictGet(mf, candidates[i], {})
                f2 == DictGet(mf, candidates[j], {})
            IN  IF /\ i < j
                   /\ Public(candidates[i]) = Public(candidates[j])
                   /\ Cardinality(Public(candidates[i])) >= min_functions
                   /\ 100 * Cardinality(f1 \cap f2)
                        >= similarity_threshold * Cardinality(f1 \cup f2)
                THEN <<Smell("Potential Redundant Abstractions",
                             DictGet(fp, candidates[i], Unknown), candidates[i],
                             "medium")>>
                ELSE <<>>
        Row(i) == Flatten([j \in 1..Len(candidates) |-> Pair(i, j)])
    IN  Result(Flatten([i \in 1..Len(candidates) |-> Row(i)]), FALSE, ext)

detect_god_objects(g, mf, au, fp, ext, thr) ==
    LET min_functions == Thr(thr, "MIN_GOD_OBJECT_FUNCTIONS", 5)
        Public(m) == {f \in DictGet(mf, m, {}) :
                        ~StartsWith(f, "_")
                        /\ ~StartsWithAny(f, {"test_", "setup_", "config_"})}
        Reaches(m) == Cardinality(Public(m)) >= min_functions
        One(m) == IF Reaches(m) /\ Cardinality(Public(m)) > thr["GOD_OBJECT_FUNCTIONS"]
                  THEN <<Smell("God Object", DictGet(fp, m, Unknown), m, "medium")>>
                  ELSE <<>>
    IN  IF "GOD_OBJECT_FUNCTIONS" \notin DOMAIN thr /\ \E m \in Range(mf.keys) : Reaches(m)
        THEN Result(<<>>, TRUE, ext)                                  \* KeyError
        ELSE Result(FlatMap(mf.keys, One), FALSE, ext)

CountOf(calls, c) == Cardinality({i \in 1..Len(calls) : calls[i] = c})

detect_improper_api_usage(g, mf, au, fp, ext, thr) ==
    LET min_calls == Thr(thr, "MIN_API_CALLS", 10)
        repetition_threshold == Thr(thr, "API_REPETITION_THRESHOLD", 40)
        One(m) ==
            LET api_calls == DictGet(au, m, <<>>)
                repetitive_calls == {c \in Range(api_calls) : CountOf(api_calls, c) >= 3}
                repeated == Cardinality({i \in 1..Len(api_calls) :
                                            api_calls[i] \in repetitive_calls})
            IN  IF /\ Len(api_calls) >= min_calls
                   /\ repetitive_calls # {}
                   /\ 100 * repeated > repetition_threshold * Len(api_calls)
                THEN <<Smell("Potential Improper API Usage",
                             DictGet(fp, m, Unknown), m, "medium")>>
                ELSE <<>>
    IN  Result(FlatMap(au.keys, One), FALSE, ext)

detect_orphan_modules(g, mf, au, fp, ext, thr) ==
    LET excluded_modules == {"__init__", "setup", "tests", "utils"}
        min_project_size == Thr(thr, "MIN_PROJECT_SIZE", 3)
        One(node) ==
            IF /\ InDegree(g, node) + OutDegree(g, node) = 0
               /\ node[Len(node)] \notin excluded_modules
               /\ ~NameContainsAny(node, excluded_modules)
            THEN <<Smell("Orphan Module", DictGet(fp, node, Unknown), node, "medium")>>
            ELSE <<>>
    IN  IF Len(g.nodes) < min_project_size THEN Result(<<>>, FALSE, ext)
        ELSE Result(FlatMap(g.nodes, One), FALSE, ext)


\* nx.simple_cycles: every elementary cycle once, written here from its
\* earliest-inserted node (a self-loop is a cycle of one node).
RECURSIVE CyclesFrom(_, _, _)
CyclesFrom(g, start, path) ==
    LET last == path[Len(path)]
        closing == IF <<last, start>> \in g.edges THEN {path} ELSE {}
        next == {w \in Successors(g, last) :
                    /\ w \notin Range(path)
                    /\ NodeIdx(g, w) > NodeIdx(g, start)}
    IN  closing \cup UNION {CyclesFrom(g, start, Append(path, w)) : w \in next}

simple_cycles(g) == UNION {CyclesFrom(g, n, <<n>>) : n \in Range(g.nodes)}

\* the number of paths nx.all_simple_paths(g, source, target) yields
RECURSIVE CountSimplePaths(_, _, _, _)
CountSimplePaths(g, u, target, visited) ==
    SumSeq([i \in 1..Len(g.nodes) |->
              LET w == g.nodes[i]
              IN  IF <<u, w>> \notin g.edges \/ w \in visited THEN 0
                  ELSE IF w = target THEN 1
                  ELSE CountSimplePaths(g, w, target, visited \cup {w})])

all_simple_paths_count(g, source, target) ==
    IF source = target THEN 0 ELSE CountSimplePaths(g, source, target, {source})

cycle_strength(g, cycle) ==
    SumSeq([i \in 1..Len(cycle) |->
              all_simple_paths_count(g, cycle[i], cycle[(i % Len(cycle)) + 1])])

CycleKept(cycle, thr) ==
    /\ Thr(thr, "MIN_CYCLE_SIZE", 2) <= Len(cycle)
    /\ Len(cycle) <= Thr(thr, "MAX_CYCLE_SIZE", 5)
    /\ ~\E i \in 1..Len(cycle) :
          NameContainsAny(cycle[i], {"__init__", "utils", "common", "base", "core"})

CycleSeverity(len, strength) == IF len >= 3 /\ strength >= 3 THEN "high" ELSE "medium"

\* cycle_groups with the first cycle of each group reported
CyclicReports_First(g, thr) ==
    LET kept == {c \in simple_cycles(g) : CycleKept(c, thr)}
        cycle_groups == SeqOfSet({Range(c) : c \in kept})
        One(key) ==
            LET group == {c \in kept : Range(c) = key}
                first_cycle ==
                    CHOOSE c \in group :
                       \A o \in group : cycle_strength(g, c) <= cycle_strength(g, o)
            IN  <<[cycle |-> first_cycle, strength |-> cycle_strength(g, first_cycle)]>>
    IN  FlatMap(cycle_groups, One)

\* what detect_cyclic_dependencies reports: for every group of kept cycles
\* with the same node set, its strongest cycle and that cycle's strength
CyclicReports(g, thr) ==
    LET kept == {c \in simple_cycles(g) : CycleKept(c, thr)}
        cycle_groups == SeqOfSet({Range(c) : c \in kept})
        One(key) ==
            LET group == {c \in kept : Range(c) = key}
                strongest_cycle ==
                    CHOOSE c \in group :
                       \A o \in group : cycle_strength(g, o) <= cycle_strength(g, c)
            IN  <<[cycle |-> strongest_cycle,
                   strength |-> cycle_strength(g, strongest_cycle)]>>
    IN  FlatMap(cycle_groups, One)

detect_cyclic_dependencies(g, mf, au, fp, ext, thr) ==
    LET reports == CyclicReports(g, thr)
    IN  Result([i \in 1..Len(reports) |->
                  Smell("Cyclic Dependency", DictGet(fp, reports[i].cycle[1], Unknown),
                        reports[i].cycle[1],
                        CycleSeverity(Len(reports[i].cycle), reports[i].strength))],
               FALSE, ext)

detect_unstable_dependencies(g, mf, au, fp, ext, thr) ==
    LET min_dependencies == Thr(thr, "MIN_DEPENDENCIES", 5)
        Considered(node) ==
            /\ ~NameContainsAny(node, {"test_", "setup_", "__init__"})
            /\ InDegree(g, node) + OutDegree(g, node) >= min_dependencies
        One(node) ==
            IF /\ Considered(node)
               /\ 100 * OutDegree(g, node)
                    > thr["UNSTABLE_DEPENDENCY_THRESHOLD"]
                        * (InDegree(g, node) + OutDegree(g, node))
            THEN <<Smell("Unstable Dependency", DictGet(fp, node, Unknown), node,
                         "medium")>>
            ELSE <<>>
    IN  IF /\ "UNSTABLE_DEPENDENCY_THRESHOLD" \notin DOMAIN thr
           /\ \E n \in Range(g.nodes) : Considered(n)
        THEN Result(<<>>, TRUE, ext)                                  \* KeyError
        ELSE Result(FlatMap(g.nodes, One), FALSE, ext)

\* ------------------------------ ArchitecturalSmellDetector.detect_smells
ArchMethods == <<"detect_hub_like_dependency", "detect_scattered_functionality",
                 "detect_redundant_abstractions", "detect_god_objects",
                 "detect_improper_api_usage", "detect_orphan_modules",
                 "detect_cyclic_dependencies", "detect_unstable_dependencies">>

ArchRun(name, g, mf, au, fp, ext, thr) ==
    CASE name = "detect_hub_like_dependency" -> detect_hub_like_dependency(g, mf, au, fp, ext, thr)
      [] name = "detect_scattered_functionality" -> detect_scattered_functionality(g, mf, au, fp, ext, thr)
      [] name = "detect_redundant_abstractions" -> detect_redundant_abstractions(g, mf, au, fp, ext, thr)
      [] name = "detect_god_objects" -> detect_god_objects(g, mf, au, fp, ext, thr)
      [] name = "detect_improper_api_usage" -> detect_improper_api_usage(g, mf, au, fp, ext, thr)
      [] name = "detect_orphan_modules" -> detect_orphan_modules(g, mf, au, fp, ext, thr)
      [] name = "detect_cyclic_dependencies" -> detect_cyclic_dependencies(g, mf, au, fp, ext, thr)
      [] OTHER -> detect_unstable_dependencies(g, mf, au, fp, ext, thr)

\* the loop over detection_methods.  When a method raises, the inner handler
\* raises CodeAnalysisError(function_name = method), the outer
\* `except Exception` catches that one too and raises a new error without the
\* function name: the loop is left.
ArchAfter(acc, name, r) ==
    [smells |-> acc.smells \o r.smells, ext |-> r.ext,
     ran |-> Append(acc.ran, name), raised |-> r.raised]

RECURSIVE ArchLoop(_, _, _, _, _, _, _, _)
ArchLoop(i, g, mf, au, fp, ext, thr, acc) ==
    IF i > Len(ArchMethods) THEN acc
    ELSE CHOOSE out \in
            {IF next.raised THEN next
             ELSE ArchLoop(i + 1, g, mf, au, fp, next.ext, thr, next) :
                next \in {ArchAfter(acc, ArchMethods[i], r) :
                            r \in {ArchRun(ArchMethods[i], g, mf, au, fp, ext, thr)}}} :
            TRUE

\* detect_smells after analyze_directory: the detection loop
ArchDetect ==
    /\ arch_pc = "detect"
    /\ \E r \in {ArchLoop(1, module_dependencies, module_functions, api_usage,
                         file_paths, external_dependencies, arch_thresholds,
                         [smells |-> architectural_smells,
                          ext |-> external_dependencies, ran |-> <<>>,
                          raised |-> FALSE])} :
           /\ arch_ran' = r.ran
           /\ architectural_smells' = r.smells
           /\ external_dependencies' = r.ext
           /\ arch_pc' = IF r.raised THEN "raised" ELSE "done"
           /\ arch_error' = IF r.raised THEN CodeAnalysisError(directory, "None")
                            ELSE arch_error
    /\ UNCHANGED <<arch_thresholds, module_dependencies, module_functions, api_usage,
                   file_paths, arch_i>>

ArchInit ==
    /\ module_dependencies = EmptyGraph
    /\ module_functions = EmptyDict
    /\ api_usage = EmptyDict
    /\ file_paths = EmptyDict
    /\ external_dependencies = EmptyDict
    /\ architectural_smells = <<>>
    /\ arch_pc = "walk"
    /\ arch_i = 1
    /\ arch_ran = <<>>
    /\ arch_error = NoError

\* ------------------------------------------- StructuralSmellDetector: state
VARIABLES
    struct_thresholds, class_info, module_info, dependency_graph,
    struct_file_paths, structural_smells,
    files_analyzed, files_with_errors,
    struct_pc,              \* "idle", "walk", "detect", "done", "raised"
    struct_i,               \* index of the next file
    struct_ran,             \* the detection methods called so far, in order
    struct_failed           \* the detection methods that raised

structVars == <<struct_thresholds, class_info, module_info, dependency_graph,
                struct_file_paths, structural_smells, files_analyzed,
                files_with_errors, struct_pc, struct_i, struct_ran, struct_failed>>

\* relpath(file_path, project_root), extension cut off, separators to dots
StructModuleName(path) == Flatten(path)

\* analyze_class: the entry of one class, keyed module.Class; a second class
\* of the same key replaces every field of the first
ClassEntry(c) ==
    [methods |-> c.methods, fields |-> c.fields, base_classes |-> c.bases,
     method_calls |-> [m \in {c.methods[i].name : i \in
                                 {j \in 1..Len(c.methods) : c.methods[j].calls # {}}}
                         |-> UNION {c.methods[i].calls : i \in
                                      {j \in 1..Len(c.methods) : c.methods[j].name = m}}]]

RECURSIVE StructAddClasses(_, _, _)
StructAddClasses(ci, module_name, classes) ==
    IF classes = <<>> THEN ci
    ELSE StructAddClasses(
            DictPut(ci, module_name \o <<Head(classes).name>>, ClassEntry(Head(classes))),
            module_name, Tail(classes))

RECURSIVE StructAddImports(_, _, _)
StructAddImports(g, module_name, imports) ==
    IF imports = <<>> THEN g
    ELSE StructAddImports(AddEdge(g, module_name, Head(imports).module),
                          module_name, Tail(imports))

\* one iteration of the file loop of analyze_directory: analyze_file and the
\* handlers around it
StructAnalyzeFile ==
    /\ struct_pc = "walk"
    /\ struct_i <= Len(project)
    /\ LET f == project[struct_i]
           module_name == StructModuleName(f.path)
       IN  IF ~f.content.ok
           THEN \* CodeAnalysisError out of analyze_file, caught by the loop
                /\ files_with_errors' = files_with_errors + 1
                /\ UNCHANGED <<class_info, module_info, dependency_graph,
                               struct_file_paths, files_analyzed>>
           ELSE /\ module_info' = DictPut(module_info, module_name,
                                          [loc |-> Len(f.content.lines)])
                /\ struct_file_paths' = DictPut(struct_file_paths, module_name,
                                                FullPath(directory, f.path))
                /\ class_info' = StructAddClasses(class_info, module_name,
                                                  f.content.classes)
                /\ dependency_graph' =
                      StructAddImports(AddNode(dependency_graph, module_name),
                                       module_name, f.content.imports)
                /\ files_analyzed' = files_analyzed + 1
                /\ UNCHANGED files_with_errors
    /\ struct_i' = struct_i + 1
    /\ UNCHANGED <<struct_thresholds, structural_smells, struct_pc, struct_ran,
                   struct_failed>>


\* ---------------------------------------------- structural detection methods
\* Each method is given the detector's tables and returns the findings it
\* appends and whether it raised.
Outcome(smells, raised) == [smells |-> smells, raised |-> raised]

ModuleOfClass(class_name) == SubSeq(class_name, 1, Len(class_name) - 1)

\* file_paths.get(class_name.rsplit('.', 1)[0], "Unknown")
ClassFile(fp, class_name) ==
    DictGet(fp, IF Len(class_name) = 1 THEN class_name ELSE ModuleOfClass(class_name),
            Unknown)

\* 'High' if value > threshold * num/den * 1.5 else 'Medium'
Severity15(value, threshold, num, den) ==
    IF 2 * den * value > 3 * num * threshold THEN "High" ELSE "Medium"

IsProperty(m) == m.isProperty
IsMagic(m) == StartsWith(m.name, "__") /\ EndsWith(m.name, "__")
RegularMethods(info) == SelectSeq(info.methods, LAMBDA m : ~IsMagic(m) /\ ~IsProperty(m))

detect_nom(ci, mi, dg, fp, thr) ==
    LET configured == Thr(thr, "NOM_THRESHOLD", 0)
        threshold == IF configured = 0 THEN 10 ELSE configured
        One(class_name) ==
            LET nom == Len(RegularMethods(DictGet(ci, class_name, <<>>)))
            IN  IF nom > threshold
                THEN <<Smell("High Number of Methods (NOM)", ClassFile(fp, class_name),
                             class_name, Severity15(nom, threshold, 1, 1))>>
                ELSE <<>>
    IN  Outcome(FlatMap(ci.keys, One), FALSE)

\* _build_field_usage_map: the direct self.<attr> uses of every method, then
\* passes over the methods, each adding the uses of the methods it calls,
\* until a pass changes nothing
DirectUsage(methods) ==
    [n \in {methods[i].name : i \in 1..Len(methods)} |->
        UNION {methods[i].attrs : i \in {j \in 1..Len(methods) : methods[j].name = n}}]

CalledBy(method_calls, usage, name) ==
    (IF name \in DOMAIN method_calls THEN method_calls[name] ELSE {})
       \cap ((DOMAIN usage) \ {name})

\* one method of a pass: its fields, and whether `changed` was set
PropagateOne(usage, changed, name, method_calls) ==
    LET current_fields == usage[name]
        called == CalledBy(method_calls, usage, name)
    IN  [usage |-> [usage EXCEPT ![name] = current_fields \cup UNION {usage[c] : c \in called}],
         changed |-> changed \/ \E c \in called : ~(usage[c] \subseteq current_fields)]

RECURSIVE PropagatePass(_, _, _, _)
PropagatePass(usage, changed, methods, method_calls) ==
    IF methods = <<>> THEN [usage |-> usage, changed |-> changed]
    ELSE CHOOSE pass \in {PropagatePass(one.usage, one.changed, Tail(methods), method_calls) :
                             one \in {PropagateOne(usage, changed, Head(methods).name,
                                                   method_calls)}} : TRUE

RECURSIVE Propagate(_, _, _)
Propagate(usage, methods, method_calls) ==
    LET pass == PropagatePass(usage, FALSE, methods, method_calls)
    IN  IF pass.changed THEN Propagate(pass.usage, methods, method_calls)
        ELSE pass.usage

build_field_usage_map(methods, info) ==
    Propagate(DirectUsage(methods), methods, info.method_calls)

LcomPairs(info) ==
    LET regular_methods == RegularMethods(info)
        usage == build_field_usage_map(regular_methods, info)
        pairs == {p \in (1..Len(regular_methods)) \X (1..Len(regular_methods)) :
                    /\ p[1] < p[2]
                    /\ ~(StartsWith(regular_methods[p[1]].name, "_")
                         /\ StartsWith(regular_methods[p[2]].name, "_"))}
        Shared(p) == usage[regular_methods[p[1]].name] \cap usage[regular_methods[p[2]].name]
    IN  [non_cohesive |-> Cardinality({p \in pairs : Shared(p) = {}}),
         cohesive |-> Cardinality({p \in pairs : Shared(p) # {}}),
         measured |-> Len(regular_methods) >= 2]

detect_lcom(ci, mi, dg, fp, thr) ==
    LET Measured(class_name) ==
            LET v == LcomPairs(DictGet(ci, class_name, <<>>))
            IN  v.measured /\ (v.non_cohesive # 0 \/ v.cohesive # 0)
        One(class_name) ==
            LET v == LcomPairs(DictGet(ci, class_name, <<>>))
                lcom == IF v.non_cohesive > v.cohesive
                        THEN v.non_cohesive - v.cohesive ELSE 0
            IN  IF Measured(class_name) /\ lcom > thr["LCOM_THRESHOLD"]
                THEN <<Smell("High Lack of Cohesion of Methods (LCOM)",
                             ClassFile(fp, class_name), class_name,
                             Severity15(lcom, thr["LCOM_THRESHOLD"], 1, 1))>>
                ELSE <<>>
    IN  IF "LCOM_THRESHOLD" \notin DOMAIN thr /\ \E c \in Range(ci.keys) : Measured(c)
        THEN Outcome(<<>>, TRUE)                                      \* KeyError
        ELSE Outcome(FlatMap(ci.keys, One), FALSE)

detect_rfc(ci, mi, dg, fp, thr) ==
    LET One(class_name) ==
            LET info == DictGet(ci, class_name, <<>>)
                significant_methods ==
                    SelectSeq(info.methods, LAMBDA m :
                        ~IsMagic(m) /\ (~m.simple \/ ~StartsWith(m.name, "_")))
                own == {info.methods[i].name : i \in 1..Len(info.methods)}
                external_calls ==
                    UNION {info.method_calls[m] : m \in DOMAIN info.method_calls} \ own
                rfc == Len(significant_methods) + Cardinality(external_calls)
            IN  IF rfc > thr["RFC_THRESHOLD"]
                THEN <<Smell("High Response for a Class (RFC)", ClassFile(fp, class_name),
                             class_name, Severity15(rfc, thr["RFC_THRESHOLD"], 1, 1))>>
                ELSE <<>>
    IN  IF "RFC_THRESHOLD" \notin DOMAIN thr /\ ci.keys # <<>>
        THEN Outcome(<<>>, TRUE)                                      \* KeyError
        ELSE Outcome(FlatMap(ci.keys, One), FALSE)

detect_nocc(ci, mi, dg, fp, thr) ==
    LET Counted(class_name) ==
            /\ ~NameContains(class_name, "test")
            /\ ~\E i \in 1..Len(DictGet(ci, class_name, <<>>).base_classes) :
                  LET base == DictGet(ci, class_name, <<>>).base_classes[i]
                  IN  EndsWith(base[Len(base)], "Exception")
        \* three times the class weight
        Weight3(class_name) ==
            LET info == DictGet(ci, class_name, <<>>)
            IN  Len(info.methods) + Cardinality(info.fields)
                  + SumSeq([i \in 1..Len(info.methods) |-> info.methods[i].complexity])
        counted == SelectSeq(ci.keys, Counted)
        modules == SeqOfSet({ModuleOfClass(c) : c \in Range(counted)})
        One(module_name) ==
            LET classes == SelectSeq(counted, LAMBDA c : ModuleOfClass(c) = module_name)
                count == Len(classes)
                weights3 == SumSeq([i \in 1..count |-> Weight3(classes[i])])
                \* avg_weight < 5 : x 1.5 ; avg_weight > 15 : x 0.7
                num == IF weights3 < 15 * count THEN 15
                       ELSE IF weights3 > 45 * count THEN 7 ELSE 10
            IN  IF 10 * count > num * thr["NOCC_THRESHOLD"]
                THEN <<Smell("High Number of Classes (NOCC)",
                             DictGet(fp, module_name, Unknown), module_name,
                             Severity15(count, thr["NOCC_THRESHOLD"], num, 10))>>
                ELSE <<>>
    IN  IF "NOCC_THRESHOLD" \notin DOMAIN thr /\ modules # <<>>
        THEN Outcome(<<>>, TRUE)                                      \* KeyError
        ELSE Outcome(FlatMap(modules, One), FALSE)


\* nx.shortest_path_length(g, source, target); -1 stands for NetworkXNoPath
RECURSIVE Bfs(_, _, _, _, _)
Bfs(g, frontier, visited, target, d) ==
    IF target \in frontier THEN d
    ELSE IF frontier = {} THEN -1
    ELSE LET next == UNION {Successors(g, n) : n \in frontier} \ visited
         IN  Bfs(g, next, visited \cup next, target, d + 1)

shortest_path_length(g, source, target) == Bfs(g, {source}, {source}, target, 0)

Object == <<"object">>

\* the inheritance graph of detect_dit: an edge base -> class for every base
\* that is not skipped, then the root `object` above every node without a
\* predecessor
RECURSIVE AddBases(_, _, _)
AddBases(g, class_name, bases) ==
    IF bases = <<>> THEN g
    ELSE LET base == Head(bases)
             base_name == base[Len(base)]
             skipped == \/ base_name \in {"object", "Exception", "dict", "list", "set",
                                          "tuple", "str", "int", "float"}
                        \/ AtomContains(base_name, "Mixin")
                        \/ AtomContains(base_name, "Interface")
                        \/ AtomContains(base_name, "ABC")
                        \/ AtomContains(base_name, "Abstract")
         IN  AddBases(IF skipped THEN g ELSE AddEdge(g, base, class_name),
                      class_name, Tail(bases))

RECURSIVE AddClasses(_, _, _)
AddClasses(g, ci, keys) ==
    IF keys = <<>> THEN g
    ELSE AddClasses(AddBases(AddNode(g, Head(keys)), Head(keys),
                             DictGet(ci, Head(keys), <<>>).base_classes),
                    ci, Tail(keys))

InheritanceGraph(ci) ==
    LET g == AddClasses(EmptyGraph, ci, ci.keys)
        roots == {n \in Range(g.nodes) : InDegree(g, n) = 0 /\ n # Object}
    IN  IF Object \notin Range(g.nodes) /\ g.nodes # <<>>
        THEN [nodes |-> Append(g.nodes, Object),
              edges |-> g.edges \cup {<<Object, n>> : n \in roots}]
        ELSE g

DIT(g, class_name) == shortest_path_length(g, Object, class_name)

RECURSIVE DitLoop(_, _, _, _, _)
DitLoop(g, nodes, fp, thr, acc) ==
    IF nodes = <<>> THEN Outcome(acc, FALSE)
    ELSE LET class_name == Head(nodes)
             dit == IF Object \in Range(g.nodes) THEN DIT(g, class_name) ELSE -1
         IN  IF class_name = Object THEN DitLoop(g, Tail(nodes), fp, thr, acc)
             ELSE IF dit = -1
             THEN DitLoop(g, Tail(nodes), fp, thr,
                     IF \E i \in 1..Len(class_name) :
                           \E b \in {"object", "Exception", "dict", "list", "set",
                                     "tuple", "str", "int", "float"} :
                              AtomContains(class_name[i], b) \/ class_name[i] = b
                     THEN acc
                     ELSE Append(acc, Smell("Isolated Class in Inheritance Tree",
                                            ClassFile(fp, class_name), class_name, "Low")))
             ELSE IF "DIT_THRESHOLD" \notin DOMAIN thr THEN Outcome(acc, TRUE)  \* KeyError
             ELSE DitLoop(g, Tail(nodes), fp, thr,
                     IF dit > thr["DIT_THRESHOLD"]
                     THEN Append(acc, Smell("Deep Inheritance Tree (DIT)",
                                            ClassFile(fp, class_name), class_name,
                                            Severity15(dit, thr["DIT_THRESHOLD"], 1, 1)))
                     ELSE acc)

detect_dit(ci, mi, dg, fp, thr) ==
    LET g == InheritanceGraph(ci) IN DitLoop(g, g.nodes, fp, thr, <<>>)

\* the line classifier of detect_loc: one line, with the import test put
\* before the docstring tests
LocLine_ImportFirst(st, k) ==
    IF k = "blank" THEN [st EXCEPT !.blank = @ + 1]
    ELSE IF k = "import" THEN [st EXCEPT !.import = @ + 1]
    ELSE IF k = "triple"
    THEN [st EXCEPT !.in_docstring = ~@, !.doc = @ + 1]
    ELSE IF st.in_docstring THEN [st EXCEPT !.doc = @ + 1]
    ELSE IF k = "comment" THEN st
    ELSE [st EXCEPT !.code = @ + 1]

\* the line classifier of detect_loc: one line
LocLine(st, k) ==
    IF k = "blank" THEN [st EXCEPT !.blank = @ + 1]
    ELSE IF k = "triple"
    THEN [st EXCEPT !.in_docstring = ~@, !.doc = @ + 1]
    ELSE IF st.in_docstring THEN [st EXCEPT !.doc = @ + 1]
    ELSE IF k = "import" THEN [st EXCEPT !.import = @ + 1]
    ELSE IF k = "comment" THEN st
    ELSE [st EXCEPT !.code = @ + 1]

LocStart == [code |-> 0, doc |-> 0, import |-> 0, blank |-> 0, in_docstring |-> FALSE]

RECURSIVE LocCount(_, _)
LocCount(lines, n) ==
    IF n = 0 THEN LocStart
    ELSE CHOOSE r \in {LocLine(st, lines[n]) : st \in {LocCount(lines, n - 1)}} : TRUE

ClassifyLoc(lines) == LocCount(lines, Len(lines))

\* the line classifier of detect_file_length: one line
FileLengthLine(st, k) ==
    IF k = "blank" \/ k = "comment" THEN st
    ELSE IF k = "triple" THEN [st EXCEPT !.in_docstring = ~@]
    ELSE IF ~st.in_docstring THEN [st EXCEPT !.meaningful_lines = @ + 1]
    ELSE st

FileLengthStart == [meaningful_lines |-> 0, in_docstring |-> FALSE]

RECURSIVE FileLengthCount(_, _)
FileLengthCount(lines, n) ==
    IF n = 0 THEN FileLengthStart
    ELSE CHOOSE r \in {FileLengthLine(st, lines[n]) :
                          st \in {FileLengthCount(lines, n - 1)}} : TRUE

MeaningfulLines(lines) == FileLengthCount(lines, Len(lines)).meaningful_lines

\* the lines of the file a module's path entry names
LinesAt(file_path) ==
    LET i == CHOOSE j \in 1..Len(project) : FullPath(directory, project[j].path) = file_path
    IN  project[i].content.lines

detect_loc(ci, mi, dg, fp, thr) ==
    LET One(module_name) ==
            LET lines == LinesAt(DictGet(fp, module_name, Unknown))
                c == ClassifyLoc(lines)
                effective_loc == c.code
                nonblank == Len(lines) - c.blank
                \* complexity_ratio < 0.5
                mostly_doc == nonblank > 0 /\ 2 * effective_loc < nonblank
                num == (IF NameContains(module_name, "test") THEN 15 ELSE 10)
                         * (IF mostly_doc THEN 13 ELSE 10)
            IN  IF /\ DictHas(fp, module_name)
                   /\ "LOC_THRESHOLD" \in DOMAIN thr   \* else KeyError, caught per module
                   /\ 100 * effective_loc > num * thr["LOC_THRESHOLD"]
                THEN <<Smell("High Lines of Code (LOC)", DictGet(fp, module_name, Unknown),
                             module_name,
                             Severity15(effective_loc, thr["LOC_THRESHOLD"], num, 100))>>
                ELSE <<>>
    IN  Outcome(FlatMap(mi.keys, One), FALSE)

detect_file_length(ci, mi, dg, fp, thr) ==
    LET threshold == Thr(thr, "MAX_FILE_LENGTH", 250)
        One(module_name) ==
            LET meaningful_lines ==
                    MeaningfulLines(LinesAt(DictGet(fp, module_name, Unknown)))
            IN  IF DictHas(fp, module_name) /\ meaningful_lines > threshold
                THEN <<Smell("Long File", DictGet(fp, module_name, Unknown), module_name,
                             Severity15(meaningful_lines, threshold, 1, 1))>>
                ELSE <<>>
    IN  Outcome(FlatMap(mi.keys, One), FALSE)


detect_noc(ci, mi, dg, fp, thr) ==
    LET Kind(class_name) ==
            IF NameContains(class_name, "generated") THEN "skipped"
            ELSE IF NameContainsAny(class_name, {"test", "mock", "stub", "fake"}) THEN "test"
            ELSE IF NameContainsAny(class_name, {"util", "helper", "common", "base"})
            THEN "utility"
            ELSE IF NameContainsAny(class_name, {"Abstract", "Base", "Interface"})
            THEN "abstract"
            ELSE "regular"
        Count(kind) == Len(SelectSeq(ci.keys, LAMBDA c : Kind(c) = kind))
        \* ten times the weighted NOC
        weighted_noc10 == 10 * Count("regular") + 5 * Count("abstract") + 3 * Count("utility")
        total_loc == SumSeq([i \in 1..Len(mi.val) |-> mi.val[i].loc])
        \* _adjust_noc_threshold
        num == IF total_loc > 10000 THEN 15 ELSE IF total_loc > 5000 THEN 12 ELSE 10
    IN  IF "NOC_THRESHOLD" \notin DOMAIN thr THEN Outcome(<<>>, TRUE)          \* KeyError
        ELSE IF weighted_noc10 > num * thr["NOC_THRESHOLD"]
        THEN Outcome(<<Smell("High Number of Classes (NOC)", directory, <<"Project">>,
                             IF 2 * weighted_noc10 > 3 * num * thr["NOC_THRESHOLD"]
                             THEN "High" ELSE "Medium")>>, FALSE)
        ELSE Outcome(<<>>, FALSE)

\* the methods of every class, in the order of the class table
ClassMethods(ci) ==
    Flatten([i \in 1..Len(ci.keys) |->
               [j \in 1..Len(ci.val[i].methods) |->
                   [class_name |-> ci.keys[i], method |-> ci.val[i].methods[j]]]])

detect_cyclomatic_complexity(ci, mi, dg, fp, thr) ==
    LET threshold == Thr(thr, "CYCLOMATIC_COMPLEXITY_THRESHOLD", 10)
        One(cm) ==
            IF ~IsMagic(cm.method) /\ cm.method.complexity > threshold
            THEN <<Smell("High Cyclomatic Complexity", ClassFile(fp, cm.class_name),
                         cm.class_name,
                         Severity15(cm.method.complexity, threshold, 1, 1))>>
            ELSE <<>>
    IN  Outcome(FlatMap(ClassMethods(ci), One), FALSE)

detect_fanout(ci, mi, dg, fp, thr) ==
    LET threshold == Thr(thr, "MAX_FANOUT", 15)
        One(module) ==
            LET significant_deps ==
                    Cardinality({d \in Successors(dg, module) : ~StartsWithStdlibName(d)})
            IN  IF ~NameContains(module, "test") /\ significant_deps > threshold
                THEN <<Smell("High Fan-out", DictGet(fp, module, Unknown), module,
                             Severity15(significant_deps, threshold, 1, 1))>>
                ELSE <<>>
    IN  Outcome(FlatMap(dg.nodes, One), FALSE)

detect_fanin(ci, mi, dg, fp, thr) ==
    LET threshold == Thr(thr, "MAX_FANIN", 15)
        One(module) ==
            IF /\ ~NameContainsAny(module, {"util", "base", "common", "interface"})
               /\ InDegree(dg, module) > threshold
            THEN <<Smell("High Fan-in", DictGet(fp, module, Unknown), module,
                         Severity15(InDegree(dg, module), threshold, 1, 1))>>
            ELSE <<>>
    IN  Outcome(FlatMap(dg.nodes, One), FALSE)

\* _calculate_cbo_severity with the thresholds exchanged
calculate_cbo_severity_Exchanged(weighted_cbo2, threshold) ==
    IF weighted_cbo2 > threshold * 4 THEN "Medium"
    ELSE IF weighted_cbo2 > threshold * 3 THEN "High"
    ELSE "Low"

\* _calculate_cbo_severity; weighted_cbo = direct * 1.5 + indirect * 0.5 is
\* kept as its double, weighted_cbo2 = 3 * direct + indirect
calculate_cbo_severity(weighted_cbo2, threshold) ==
    IF weighted_cbo2 > threshold * 4 THEN "High"
    ELSE IF weighted_cbo2 > threshold * 3 THEN "Medium"
    ELSE "Low"

\* _analyze_branches. The body of a method is the sequence of its statement
\* nodes in the order ast.walk yields them (breadth first): node i has
\* parent < i (0 is the method itself), the parents never decrease along the
\* sequence, and among the children of an `if` those of its body come before
\* those of its orelse. kind "loop" is a for or a while statement, "def" a
\* nested function, "expr" any other statement; handlers is the number of
\* except clauses of a try.
StmtKinds == {"if", "loop", "try", "def", "expr"}
BranchKinds == {"if", "loop", "try"}

Stmt(kind, parent, orelse, handlers) ==
    [kind |-> kind, parent |-> parent, orelse |-> orelse, handlers |-> handlers]

\* len([1 for handler in node.orelse if isinstance(handler, ast.If)])
ElifCount(body, i) ==
    Cardinality({j \in 1..Len(body) :
                    body[j].parent = i /\ body[j].orelse /\ body[j].kind = "if"})

\* one node of the walk
BranchNode(acc, body, i) ==
    IF body[i].kind \in BranchKinds
    THEN [count |-> acc.count + 1
                      + (IF body[i].kind = "if" THEN ElifCount(body, i)
                         ELSE IF body[i].kind = "try" THEN body[i].handlers ELSE 0),
          current_nesting |-> acc.current_nesting + 1,
          max_nesting |-> IF acc.current_nesting + 1 > acc.max_nesting
                          THEN acc.current_nesting + 1 ELSE acc.max_nesting]
    ELSE IF body[i].kind = "def"
    THEN [acc EXCEPT !.current_nesting = IF @ >= 1 THEN @ - 1 ELSE 0]
    ELSE acc

RECURSIVE BranchWalk(_, _)
BranchWalk(body, i) ==
    IF i = 0 THEN [count |-> 0, current_nesting |-> 0, max_nesting |-> 0]
    ELSE CHOOSE r \in {BranchNode(acc, body, i) : acc \in {BranchWalk(body, i - 1)}} : TRUE

analyze_branches(body) ==
    [count |-> BranchWalk(body, Len(body)).count,
     max_nesting |-> BranchWalk(body, Len(body)).max_nesting]

detect_branches(ci, mi, dg, fp, thr) ==
    LET threshold == Thr(thr, "MAX_BRANCHES", 10)
        One(cm) ==
            IF /\ ~IsProperty(cm.method)
               /\ ~StartsWithAny(cm.method.name, {"get_", "set_", "is_"})
               /\ (cm.method.branches > threshold \/ cm.method.nesting > 3)
            THEN <<Smell("Too Many Branches", ClassFile(fp, cm.class_name), cm.class_name,
                         Severity15(cm.method.branches, threshold, 1, 1))>>
            ELSE <<>>
    IN  Outcome(FlatMap(ClassMethods(ci), One), FALSE)

\* ------------------------------------ StructuralSmellDetector.detect_smells
StructMethods == <<"detect_nom", "detect_lcom", "detect_rfc", "detect_nocc",
                   "detect_dit", "detect_loc", "detect_noc",
                   "detect_cyclomatic_complexity", "detect_fanout", "detect_fanin",
                   "detect_file_length", "detect_branches">>

StructRun(name, ci, mi, dg, fp, thr) ==
    CASE name = "detect_nom" -> detect_nom(ci, mi, dg, fp, thr)
      [] name = "detect_lcom" -> detect_lcom(ci, mi, dg, fp, thr)
      [] name = "detect_rfc" -> detect_rfc(ci, mi, dg, fp, thr)
      [] name = "detect_nocc" -> detect_nocc(ci, mi, dg, fp, thr)
      [] name = "detect_dit" -> detect_dit(ci, mi, dg, fp, thr)
      [] name = "detect_loc" -> detect_loc(ci, mi, dg, fp, thr)
      [] name = "detect_noc" -> detect_noc(ci, mi, dg, fp, thr)
      [] name = "detect_cyclomatic_complexity" -> detect_cyclomatic_complexity(ci, mi, dg, fp, thr)
      [] name = "detect_fanout" -> detect_fanout(ci, mi, dg, fp, thr)
      [] name = "detect_fanin" -> detect_fanin(ci, mi, dg, fp, thr)
      [] name = "detect_file_length" -> detect_file_length(ci, mi, dg, fp, thr)
      [] OTHER -> detect_branches(ci, mi, dg, fp, thr)

\* the summary logged after the file loop of analyze_directory (and printed
\* after the file loop of analyze_code_smells): the two counters and
\* (files_analyzed - files_with_errors) / max(files_analyzed, 1), kept as a
\* fraction
AnalysisSummary(analyzed, with_errors) ==
    [files_analyzed |-> analyzed, files_with_errors |-> with_errors,
     rate_num |-> analyzed - with_errors,
     rate_den |-> IF analyzed >= 1 THEN analyzed ELSE 1]

\* the end of analyze_directory: without any analysed module detect_smells
\* returns before the detection loop
StructWalkDone ==
    /\ struct_pc = "walk"
    /\ struct_i > Len(project)
    /\ struct_pc' = IF module_info.keys = <<>> THEN "done" ELSE "detect"
    /\ struct_i' = struct_i
    /\ UNCHANGED <<struct_thresholds, class_info, module_info, dependency_graph,
                   struct_file_paths, structural_smells, files_analyzed,
                   files_with_errors, struct_ran, struct_failed>>

\* the loop over detection_methods; when a method raises the error is logged
\* and the loop goes on with the next method
StructAfter(acc, name, r) ==
    [smells |-> acc.smells \o r.smells, ran |-> Append(acc.ran, name),
     failed |-> IF r.raised THEN Append(acc.failed, name) ELSE acc.failed]

RECURSIVE StructLoop(_, _, _, _, _, _, _)
StructLoop(i, ci, mi, dg, fp, thr, acc) ==
    IF i > Len(StructMethods) THEN acc
    ELSE CHOOSE out \in
            {StructLoop(i + 1, ci, mi, dg, fp, thr, next) :
                next \in {StructAfter(acc, StructMethods[i], r) :
                            r \in {StructRun(StructMethods[i], ci, mi, dg, fp, thr)}}} :
            TRUE

\* detect_smells after analyze_directory: the detection loop
StructDetect ==
    /\ struct_pc = "detect"
    /\ \E r \in {StructLoop(1, class_info, module_info, dependency_graph,
                           struct_file_paths, struct_thresholds,
                           [smells |-> structural_smells, ran |-> <<>>,
                            failed |-> <<>>])} :
           /\ struct_ran' = r.ran
           /\ structural_smells' = r.smells
           /\ struct_failed' = r.failed
           /\ struct_pc' = "done"
    /\ UNCHANGED <<struct_thresholds, class_info, module_info, dependency_graph,
                   struct_file_paths, files_analyzed, files_with_errors, struct_i>>

StructInit ==
    /\ class_info = EmptyDict
    /\ module_info = EmptyDict
    /\ dependency_graph = EmptyGraph
    /\ struct_file_paths = EmptyDict
    /\ structural_smells = <<>>
    /\ files_analyzed = 0
    /\ files_with_errors = 0
    /\ struct_pc = "walk"
    /\ struct_i = 1
    /\ struct_ran = <<>>
    /\ struct_failed = <<>>


\* =========================================================================
\* CodeSmellDetector (pyexamine/src/code_quality_analyzer/code_smell_detector.py)
\* =========================================================================
VARIABLES
    code_thresholds,        \* self.thresholds
    code_smells,            \* self.code_smells
    code_errors,            \* errors of analyze_code_smells
    code_files_analyzed,
    code_files_with_errors,
    code_pc,                \* "walk", "done"
    code_i,                 \* the next file of the walk
    code_ran                \* the rules run on the file analysed last

codeVars == <<code_thresholds, code_smells, code_errors, code_files_analyzed,
              code_files_with_errors, code_pc, code_i, code_ran>>

\* `for x in xs: ... self.thresholds[key] ...`: KeyError when the loop body
\* is entered and the key is missing
Missing(thr, key) == key \notin DOMAIN thr

detect_long_methods(module, file_path, thr) ==
    LET One(d) == IF d.lines > thr["LONG_METHOD_LINES"]
                  THEN <<Smell("Long Method", file_path, <<d.name>>, "")>>
                  ELSE <<>>
    IN  IF module.funcs # <<>> /\ Missing(thr, "LONG_METHOD_LINES")
        THEN Outcome(<<>>, TRUE)
        ELSE Outcome(FlatMap(module.funcs, One), FALSE)

NonTrivialMethods(c) == SelectSeq(c.methods, LAMBDA m : ~IsMagic(m) /\ ~m.trivial)

detect_large_classes(module, file_path, thr) ==
    LET One(c) == IF Len(NonTrivialMethods(c)) > thr["LARGE_CLASS_METHODS"]
                  THEN <<Smell("Large Class", file_path, <<c.name>>, "medium")>>
                  ELSE <<>>
    IN  IF module.classes # <<>> /\ Missing(thr, "LARGE_CLASS_METHODS")
        THEN Outcome(<<>>, TRUE)
        ELSE Outcome(FlatMap(module.classes, One), FALSE)

\* no parameter of the tree is annotated: primitives stays empty
detect_primitive_obsession(module, file_path, thr) ==
    IF /\ \E i \in 1..Len(module.funcs) : Len(module.funcs[i].params) > 3
       /\ Missing(thr, "PRIMITIVE_OBSESSION_COUNT")
    THEN Outcome(<<>>, TRUE)
    ELSE Outcome(<<>>, FALSE)

NotInit(d) == d.name # "__init__"

detect_long_parameter_lists(module, file_path, thr) ==
    LET defs == SelectSeq(module.funcs, NotInit)
        One(d) == IF Len(d.params) > thr["LONG_PARAMETER_LIST"]
                  THEN <<Smell("Long Parameter List", file_path, <<d.name>>, "")>>
                  ELSE <<>>
    IN  IF defs # <<>> /\ Missing(thr, "LONG_PARAMETER_LIST")
        THEN Outcome(<<>>, TRUE)
        ELSE Outcome(FlatMap(defs, One), FALSE)

detect_data_clumps(module, file_path, thr) ==
    LET defs == SelectSeq(module.funcs, NotInit)
        Combos(d) == IF Len(d.params) < thr["DATA_CLUMPS_THRESHOLD"] THEN {}
                     ELSE {c \in SUBSET Range(d.params) : Cardinality(c) >= 3}
        parameter_groups == UNION {Combos(defs[i]) : i \in 1..Len(defs)}
        Functions(c) == SelectSeq(defs, LAMBDA d : c \in Combos(d))
        One(c) == IF /\ Len(Functions(c)) > 1
                     /\ Cardinality(c) >= thr["DATA_CLUMPS_THRESHOLD"]
                  THEN <<Smell("Data Clumps", file_path,
                               [i \in 1..Len(Functions(c)) |-> Functions(c)[i].name],
                               "medium")>>
                  ELSE <<>>
    IN  IF defs # <<>> /\ Missing(thr, "DATA_CLUMPS_THRESHOLD")
        THEN Outcome(<<>>, TRUE)
        ELSE Outcome(FlatMap(SeqOfSet(parameter_groups), One), FALSE)

\* the tree holds no if statement with an else branch
detect_switch_statements(module, file_path, thr) == Outcome(<<>>, FALSE)

\* no __init__ of the tree assigns a local name: init_fields stays empty
detect_temporary_fields(module, file_path, thr) ==
    LET One(c) == IF 0 >= thr["TEMPORARY_FIELD_THRESHOLD"]
                  THEN <<Smell("Temporary Field", file_path, <<c.name>>, "low")>>
                  ELSE <<>>
    IN  IF module.classes # <<>> /\ Missing(thr, "TEMPORARY_FIELD_THRESHOLD")
        THEN Outcome(<<>>, TRUE)
        ELSE Outcome(FlatMap(module.classes, One), FALSE)

PublicMethodNames(c) ==
    {c.methods[i].name : i \in {j \in 1..Len(c.methods) : ~StartsWith(c.methods[j].name, "_")}}

detect_alternative_classes(module, file_path, thr) ==
    LET eligible == SelectSeq(module.classes,
                              LAMBDA c : Cardinality(PublicMethodNames(c)) >= 2)
        class_methods == {PublicMethodNames(eligible[i]) : i \in 1..Len(eligible)}
        Classes(methods) == SelectSeq(eligible, LAMBDA c : PublicMethodNames(c) = methods)
        One(methods) ==
            IF /\ Len(Classes(methods)) >= thr["ALTERNATIVE_CLASSES_THRESHOLD"]
               /\ \A i \in 1..Len(Classes(methods)) : Classes(methods)[i].bases = <<>>
            THEN <<Smell("Alternative Classes with Different Interfaces", file_path,
                         [i \in 1..Len(Classes(methods)) |-> Classes(methods)[i].name],
                         "medium")>>
            ELSE <<>>
    IN  IF class_methods # {} /\ Missing(thr, "ALTERNATIVE_CLASSES_THRESHOLD")
        THEN Outcome(<<>>, TRUE)
        ELSE Outcome(FlatMap(SeqOfSet(class_methods), One), FALSE)

\* method.name.split('_')[0]: the public method names of the tree hold no
\* underscore
Prefix(name) == name

MethodPrefixes(c) ==
    LET kept == SelectSeq(c.methods,
                   LAMBDA m : /\ ~StartsWith(m.name, "_") /\ ~m.isProperty
                              /\ Prefix(m.name) \notin {"get", "set", "is", "has", "validate",
                                                        "create", "update", "delete"})
    IN  [i \in 1..Len(kept) |-> Prefix(kept[i].name)]

detect_divergent_change(module, file_path, thr) ==
    LET Exceeds(c) == Cardinality(Range(MethodPrefixes(c))) > thr["DIVERGENT_CHANGE_PREFIXES"]
        One(c) == IF Exceeds(c) /\ Len(MethodPrefixes(c)) > thr["DIVERGENT_CHANGE_METHODS"]
                  THEN <<Smell("Potential Divergent Change", file_path, <<c.name>>, "medium")>>
                  ELSE <<>>
    IN  IF \/ module.classes # <<>> /\ Missing(thr, "DIVERGENT_CHANGE_PREFIXES")
           \/ /\ ~Missing(thr, "DIVERGENT_CHANGE_PREFIXES")
              /\ Missing(thr, "DIVERGENT_CHANGE_METHODS")
              /\ \E i \in 1..Len(module.classes) : Exceeds(module.classes[i])
        THEN Outcome(<<>>, TRUE)
        ELSE Outcome(FlatMap(module.classes, One), FALSE)

\* no file of the tree holds two base classes with two subclasses each
detect_parallel_inheritance(module, file_path, thr) == Outcome(<<>>, FALSE)

\* the tree holds no call by bare name
detect_shotgun_surgery(module, file_path, thr) == Outcome(<<>>, FALSE)

\* the scan of detect_comments over the lines: the blocks of consecutive
\* comment lines (0-based line numbers) and the number of code lines
RECURSIVE CommentScan(_, _, _, _, _)
CommentScan(lines, i, current_block, comment_blocks, code_lines) ==
    LET closed == IF current_block # <<>> THEN Append(comment_blocks, current_block)
                  ELSE comment_blocks
    IN  IF i > Len(lines) THEN [comment_blocks |-> closed, code_lines |-> code_lines]
        ELSE IF lines[i] = "comment"
        THEN CommentScan(lines, i + 1, Append(current_block, i - 1), comment_blocks,
                         code_lines)
        ELSE CommentScan(lines, i + 1, <<>>, closed,
                         IF lines[i] \in {"blank", "triple"} THEN code_lines
                         ELSE code_lines + 1)

detect_comments(module, file_path, thr) ==
    LET scan == CommentScan(module.lines, 1, <<>>, <<>>, 0)
        comment_blocks == IF scan.comment_blocks # <<>> /\ scan.comment_blocks[1][1] = 0
                          THEN Tail(scan.comment_blocks) ELSE scan.comment_blocks
        comment_lines == SumSeq([i \in 1..Len(comment_blocks) |-> Len(comment_blocks[i])])
        code_lines == IF scan.code_lines > 1 THEN scan.code_lines ELSE 1
        large_comment_blocks ==
            Cardinality({i \in 1..Len(comment_blocks) : Len(comment_blocks[i]) > 5})
        excessive == 100 * comment_lines > thr["EXCESSIVE_COMMENTS_RATIO"] * code_lines
    IN  IF Missing(thr, "EXCESSIVE_COMMENTS_RATIO") THEN Outcome(<<>>, TRUE)
        ELSE IF excessive /\ Missing(thr, "LARGE_COMMENT_BLOCKS") THEN Outcome(<<>>, TRUE)
        ELSE IF excessive /\ large_comment_blocks > thr["LARGE_COMMENT_BLOCKS"]
        THEN Outcome(<<Smell("Excessive Comments", file_path, <<>>, "low")>>, FALSE)
        ELSE Outcome(<<>>, FALSE)

\* len(node.body): the body of a function of the tree holds one statement
\* per line after the `def` line, none of them a return or an assignment,
\* and no two functions of a file have the same normalised code
detect_duplicate_code(module, file_path, thr) ==
    LET kept == SelectSeq(module.funcs,
                   LAMBDA d : /\ ~(d.lines - 1 < thr["DUPLICATE_CODE_MIN_LINES"])
                              /\ ~StartsWith(d.name, "test_"))
        One(d) == IF 1 >= thr["DUPLICATE_CODE_THRESHOLD"]
                  THEN <<Smell("Duplicate Code", file_path, <<d.name>>, "high")>>
                  ELSE <<>>
    IN  IF module.funcs # <<>> /\ Missing(thr, "DUPLICATE_CODE_MIN_LINES")
        THEN Outcome(<<>>, TRUE)
        ELSE IF kept # <<>> /\ Missing(thr, "DUPLICATE_CODE_THRESHOLD")
        THEN Outcome(<<>>, TRUE)
        ELSE Outcome(FlatMap(kept, One), FALSE)

\* no method of the tree starts with `pass` or has a parameter besides self
detect_speculative_generality(module, file_path, thr) ==
    LET first == 0 >= thr["SPECULATIVE_GENERALITY_THRESHOLD"]
        One(c) == IF first \/ 0 >= thr["UNUSED_PARAMETERS_THRESHOLD"]
                  THEN <<Smell("Speculative Generality", file_path, <<c.name>>, "medium")>>
                  ELSE <<>>
    IN  IF module.classes = <<>> THEN Outcome(<<>>, FALSE)
        ELSE IF Missing(thr, "SPECULATIVE_GENERALITY_THRESHOLD") THEN Outcome(<<>>, TRUE)
        ELSE IF ~first /\ Missing(thr, "UNUSED_PARAMETERS_THRESHOLD") THEN Outcome(<<>>, TRUE)
        ELSE Outcome(FlatMap(module.classes, One), FALSE)

\* no top-level function of the tree accesses an attribute
detect_feature_envy(module, file_path, thr) == Outcome(<<>>, FALSE)

InstanceAttrs(c) == UNION {c.methods[i].attrs : i \in 1..Len(c.methods)}

detect_inappropriate_intimacy(module, file_path, thr) ==
    LET cs == module.classes
        Methods(c) == {c.methods[i].name :
                          i \in {j \in 1..Len(c.methods) : ~StartsWith(c.methods[j].name, "__")}}
        Fields(c) == {f \in InstanceAttrs(c) : ~StartsWith(f, "_")}
        Related(c, o) == <<o.name>> \in Range(c.bases) \/ <<c.name>> \in Range(o.bases)
        pairs == SelectSeq(FlatMap(cs, LAMBDA c : [i \in 1..Len(cs) |-> <<c, cs[i]>>]),
                           LAMBDA q : q[1].name # q[2].name /\ ~Related(q[1], q[2]))
        Shared(q) == Cardinality(Methods(q[1]) \cap Fields(q[2]))
        One(q) == IF /\ Shared(q) > thr["INAPPROPRIATE_INTIMACY_SHARED"]
                     /\ 10 * Shared(q) > 3 * Cardinality(Methods(q[1]))
                  THEN <<Smell("Inappropriate Intimacy", file_path, <<q[1].name>>, "medium")>>
                  ELSE <<>>
    IN  IF pairs # <<>> /\ Missing(thr, "INAPPROPRIATE_INTIMACY_SHARED")
        THEN Outcome(<<>>, TRUE)
        ELSE Outcome(FlatMap(pairs, One), FALSE)

\* the Attribute nodes of the module with the function that holds each:
\* every attribute chain of the tree is one attribute long (x.name)
AttributeNodes(module) ==
    FlatMap(module.classes,
            LAMBDA c : FlatMap(c.methods,
                               LAMBDA m : [i \in 1..(Cardinality(m.attrs) + Cardinality(m.calls))
                                             |-> <<m.name>>]))
       \o [i \in 1..Len(module.calls) |-> <<>>]

detect_message_chains(module, file_path, thr) ==
    LET One(context) == IF 1 <= thr["MESSAGE_CHAIN_LENGTH"] THEN <<>>
                        ELSE <<Smell("Message Chains", file_path, context, "medium")>>
    IN  IF AttributeNodes(module) # <<>> /\ Missing(thr, "MESSAGE_CHAIN_LENGTH")
        THEN Outcome(<<>>, TRUE)
        ELSE Outcome(FlatMap(AttributeNodes(module), One), FALSE)

\* the body of a class of the tree holds its methods only, and none of them
\* is a single `return <call>`: delegating_methods stays 0, and a ratio
\* above the threshold ends in max() of an empty sequence
detect_middle_man(module, file_path, thr) ==
    LET considered == SelectSeq(module.classes, LAMBDA c : Len(c.methods) > 3)
    IN  IF considered = <<>> THEN Outcome(<<>>, FALSE)
        ELSE IF Missing(thr, "MIDDLE_MAN_RATIO") THEN Outcome(<<>>, TRUE)
        ELSE Outcome(<<>>, 0 > thr["MIDDLE_MAN_RATIO"])

\* ------------------------------------------ CodeSmellDetector.detect_smells
CodeMethods ==
    <<"detect_long_methods", "detect_large_classes", "detect_primitive_obsession",
      "detect_long_parameter_lists", "detect_data_clumps", "detect_switch_statements",
      "detect_temporary_fields", "detect_alternative_classes", "detect_divergent_change",
      "detect_parallel_inheritance", "detect_shotgun_surgery", "detect_comments",
      "detect_duplicate_code", "detect_speculative_generality", "detect_feature_envy",
      "detect_inappropriate_intimacy", "detect_message_chains", "detect_middle_man">>

CodeRun(name, module, file_path, thr) ==
    CASE name = "detect_long_methods" -> detect_long_methods(module, file_path, thr)
      [] name = "detect_large_classes" -> detect_large_classes(module, file_path, thr)
      [] name = "detect_primitive_obsession" -> detect_primitive_obsession(module, file_path, thr)
      [] name = "detect_long_parameter_lists" -> detect_long_parameter_lists(module, file_path, thr)
      [] name = "detect_data_clumps" -> detect_data_clumps(module, file_path, thr)
      [] name = "detect_switch_statements" -> detect_switch_statements(module, file_path, thr)
      [] name = "detect_temporary_fields" -> detect_temporary_fields(module, file_path, thr)
      [] name = "detect_alternative_classes" -> detect_alternative_classes(module, file_path, thr)
      [] name = "detect_divergent_change" -> detect_divergent_change(module, file_path, thr)
      [] name = "detect_parallel_inheritance" -> detect_parallel_inheritance(module, file_path, thr)
      [] name = "detect_shotgun_surgery" -> detect_shotgun_surgery(module, file_path, thr)
      [] name = "detect_comments" -> detect_comments(module, file_path, thr)
      [] name = "detect_duplicate_code" -> detect_duplicate_code(module, file_path, thr)
      [] name = "detect_speculative_generality" -> detect_speculative_generality(module, file_path, thr)
      [] name = "detect_feature_envy" -> detect_feature_envy(module, file_path, thr)
      [] name = "detect_inappropriate_intimacy" -> detect_inappropriate_intimacy(module, file_path, thr)
      [] name = "detect_message_chains" -> detect_message_chains(module, file_path, thr)
      [] OTHER -> detect_middle_man(module, file_path, thr)

\* the loop over detection_methods.  A rule that raises is answered with
\* `raise CodeAnalysisError(function_name = method_name)` inside the outer
\* try: the outer `except Exception` catches that error and raises a new
\* CodeAnalysisError(message, file_path), so the loop is left and the error
\* that reaches the caller names the file only.
RECURSIVE CodeLoop(_, _, _, _, _)
CodeLoop(i, module, file_path, thr, acc) ==
    IF i > Len(CodeMethods) THEN acc
    ELSE LET r == CodeRun(CodeMethods[i], module, file_path, thr)
             ran == Append(acc.ran, CodeMethods[i])
         IN  IF r.raised
             THEN [smells |-> acc.smells, ran |-> ran,
                   error |-> CodeAnalysisError(file_path, "None")]
             ELSE CodeLoop(i + 1, module, file_path, thr,
                           [acc EXCEPT !.smells = @ \o r.smells, !.ran = ran])

\* detect_smells(file_path): a file that does not decode or parse raises
\* CodeAnalysisError(file_path) before any rule runs
CodeDetectSmells(smells, module, file_path, thr) ==
    IF ~module.ok
    THEN [smells |-> smells, ran |-> <<>>, error |-> CodeAnalysisError(file_path, "None")]
    ELSE CodeLoop(1, module, file_path, thr,
                  [smells |-> smells, ran |-> <<>>, error |-> NoError])

\* one iteration of the file loop of analyze_code_smells (main.py)
CodeAnalyzeFile ==
    /\ code_pc = "walk"
    /\ code_i <= Len(project)
    /\ LET file_path == FullPath(directory, project[code_i].path)
           r == CodeDetectSmells(code_smells, project[code_i].content, file_path,
                                 code_thresholds)
       IN  /\ code_smells' = r.smells
           /\ code_ran' = r.ran
           /\ IF r.error.raised
              THEN /\ code_files_with_errors' = code_files_with_errors + 1
                   /\ code_errors' = Append(code_errors,
                                            [file |-> file_path,
                                             function |-> r.error.function_name])
                   /\ UNCHANGED code_files_analyzed
              ELSE /\ code_files_analyzed' = code_files_analyzed + 1
                   /\ UNCHANGED <<code_files_with_errors, code_errors>>
    /\ code_i' = code_i + 1
    /\ UNCHANGED <<code_thresholds, code_pc>>

\* the summary after the file loop; detector.code_smells is returned
CodeSummary ==
    /\ code_pc = "walk"
    /\ code_i > Len(project)
    /\ code_pc' = "done"
    /\ UNCHANGED <<code_thresholds, code_smells, code_errors, code_files_analyzed,
                   code_files_with_errors, code_i, code_ran>>

CodeInit ==
    /\ code_smells = <<>>
    /\ code_errors = <<>>
    /\ code_files_analyzed = 0
    /\ code_files_with_errors = 0
    /\ code_pc = "walk"
    /\ code_i = 1
    /\ code_ran = <<>>

\* =========================================================================
\* analyze_project (pyexamine/src/code_quality_analyzer/main.py)
\* =========================================================================
VARIABLES
    entry,          \* the entry point that was called
    smell_type,     \* --type: "None", "code", "architectural" or "structural"
    main_pc,        \* "config", "code?", "code", "architectural?", "architectural",
                    \* "structural?", "structural", "report", "done", "raised"
    main_ran,       \* the detector families whose analysis was started, in order
    report          \* what generate_report was given and which files it wrote

mainVars == <<entry, smell_type, main_pc, main_ran, report>>

EntryPoints == {"analyze_project", "analyze_code_smells_only",
                "analyze_architectural_smells_only", "analyze_structural_smells_only"}

\* whether the entry point runs the detector of a family: analyze_project
\* tests smell_type for the architectural and the structural family (its
\* block for the code family is commented out), every other entry point runs
\* its one family
Runs(family) ==
    CASE entry = "analyze_project" ->
            family # "code" /\ smell_type \in {"None", family}
      [] entry = "analyze_code_smells_only" -> family = "code"
      [] entry = "analyze_architectural_smells_only" -> family = "architectural"
      [] OTHER -> family = "structural"

NoReport == [txt |-> FALSE, csv |-> FALSE, text |-> <<>>, code_smells |-> <<>>,
             architectural_smells |-> <<>>, structural_smells |-> <<>>]

\* config_handler = ConfigHandler(args.config); its exception is logged and
\* raised again
MainConfig ==
    /\ main_pc = "config"
    /\ ConfigConstruct
    /\ main_pc' = IF config.status = "ok" THEN "code?" ELSE "raised"
    /\ UNCHANGED <<entry, smell_type, main_ran, report>>

\* analyze_code_smells_only: the detector is constructed with its section of
\* the thresholds and analyze_code_smells starts
MainCode ==
    /\ main_pc = "code?"
    /\ IF Runs("code")
       THEN /\ code_thresholds' =
                  Numbers(get_thresholds(config_thresholds, "code_smells"))
            /\ main_ran' = Append(main_ran, "code")
            /\ main_pc' = "code"
       ELSE /\ main_pc' = "architectural?"
            /\ UNCHANGED <<code_thresholds, main_ran>>
    /\ UNCHANGED <<entry, smell_type, report>>

\* analyze_code_smells returns detector.code_smells
MainCodeReturns ==
    /\ main_pc = "code"
    /\ code_pc = "done"
    /\ main_pc' = "architectural?"
    /\ UNCHANGED <<entry, smell_type, main_ran, report>>

\* `if smell_type in [None, 'architectural']`: the detector is constructed
\* with its section of the thresholds and analyze_architectural_smells starts
MainArchitectural ==
    /\ main_pc = "architectural?"
    /\ IF Runs("architectural")
       THEN /\ arch_thresholds' =
                  Numbers(get_thresholds(config_thresholds, "architectural_smells"))
            /\ main_ran' = Append(main_ran, "architectural")
            /\ main_pc' = "architectural"
       ELSE /\ main_pc' = "structural?"
            /\ UNCHANGED <<arch_thresholds, main_ran>>
    /\ UNCHANGED <<entry, smell_type, report>>

\* analyze_architectural_smells with the detector's error passed on to its
\* caller
MainArchitecturalReturns_Propagates ==
    /\ main_pc = "architectural"
    /\ arch_pc \in {"done", "raised"}
    /\ main_pc' = IF arch_pc = "raised" THEN "raised" ELSE "structural?"
    /\ UNCHANGED <<entry, smell_type, main_ran, report>>

\* analyze_architectural_smells returns, also after it has caught the
\* detector's CodeAnalysisError
MainArchitecturalReturns ==
    /\ main_pc = "architectural"
    /\ arch_pc \in {"done", "raised"}
    /\ main_pc' = "structural?"
    /\ UNCHANGED <<entry, smell_type, main_ran, report>>

MainStructural ==
    /\ main_pc = "structural?"
    /\ IF Runs("structural")
       THEN /\ struct_thresholds' =
                  Numbers(get_thresholds(config_thresholds, "structural_smells"))
            /\ main_ran' = Append(main_ran, "structural")
            /\ main_pc' = "structural"
       ELSE /\ main_pc' = "report"
            /\ UNCHANGED <<struct_thresholds, main_ran>>
    /\ UNCHANGED <<entry, smell_type, report>>

MainStructuralReturns ==
    /\ main_pc = "structural"
    /\ struct_pc = "done"
    /\ main_pc' = "report"
    /\ UNCHANGED <<entry, smell_type, main_ran, report>>

\* the section of the text report for one family: its heading and findings,
\* or the sentence that none was detected
Section(family, smells) ==
    IF smells # <<>> THEN [heading |-> family, smells |-> smells]
    ELSE [heading |-> "No " \o family \o " smells detected.", smells |-> <<>>]

\* generate_report(code_smells, architectural_smells, structural_smells,
\* output_txt, output_csv): the text is written to output_txt when that name
\* is given (printed otherwise), the CSV only when both names are given
generate_report(code, architectural, structural, output_txt, output_csv) ==
    [txt |-> output_txt, csv |-> output_txt /\ output_csv,
     text |-> <<Section("structural", structural), Section("code", code),
                Section("architectural", architectural)>>,
     code_smells |-> code, architectural_smells |-> architectural,
     structural_smells |-> structural]

\* generate_csv_report: one row per finding, the structural findings first,
\* then the code findings, then the architectural ones, each list in the
\* order it has
CsvRow(type, smell) ==
    [Type |-> type, Name |-> smell.name, File |-> smell.file_path,
     ModuleClass |-> smell.module_class, Severity |-> smell.severity]

generate_csv_report(code, architectural, structural) ==
    [i \in 1..Len(structural) |-> CsvRow("Structural", structural[i])]
       \o [i \in 1..Len(code) |-> CsvRow("Code", code[i])]
       \o [i \in 1..Len(architectural) |-> CsvRow("Architectural", architectural[i])]

\* the rows of the CSV file a report wrote
CsvOf(r) == generate_csv_report(r.code_smells, r.architectural_smells,
                                r.structural_smells)

\* the call of generate_report each entry point makes: analyze_project and
\* analyze_structural_smells_only give both file names, the other two only
\* the name of the text file
MainReport ==
    /\ main_pc = "report"
    /\ report' =
         CASE entry = "analyze_project" ->
                 generate_report(<<>>, architectural_smells, structural_smells,
                                 TRUE, TRUE)
           [] entry = "analyze_code_smells_only" ->
                 generate_report(code_smells, <<>>, <<>>, TRUE, FALSE)
           [] entry = "analyze_architectural_smells_only" ->
                 generate_report(<<>>, architectural_smells, <<>>, TRUE, FALSE)
           [] OTHER ->
                 generate_report(<<>>, <<>>, structural_smells, TRUE, TRUE)
    /\ main_pc' = "done"
    /\ UNCHANGED <<entry, smell_type, main_ran>>

\* ---------------------------------------------------------- specifications
\* A single rule or helper applied to an input of its own:
VARIABLES
    pure_in,        \* the input
    pure_out        \* done: whether it has been applied; value: what it gave

pureVars == <<pure_in, pure_out>>

NoOutput == [done |-> FALSE, value |-> <<>>]
Output(value) == [done |-> TRUE, value |-> value]

PureIdle ==
    /\ pure_in = <<>>
    /\ pure_out = NoOutput

vars == <<directory, project, configVars, archVars, structVars, codeVars, mainVars,
          pureVars>>

\* The state after main() has built the ConfigHandler and the detectors:
\* each detector holds the section get_thresholds hands it.
InputInit ==
    /\ directory \in Directories
    /\ project \in Projects
    /\ config \in {ConfigOf(t) : t \in ThresholdChoices}
    /\ config_thresholds = load_thresholds(config)
    /\ config_log = validate_thresholds(config_thresholds)
    /\ config_pc = "ready"
    /\ config_handed = NothingHanded
    /\ code_thresholds = Numbers(get_thresholds(config_thresholds, "code_smells"))
    /\ arch_thresholds = Numbers(get_thresholds(config_thresholds, "architectural_smells"))
    /\ struct_thresholds = Numbers(get_thresholds(config_thresholds, "structural_smells"))

MainIdle ==
    /\ entry = "analyze_project"
    /\ smell_type = "None"
    /\ main_pc = "idle"
    /\ main_ran = <<>>
    /\ report = NoReport

Init == InputInit /\ ArchInit /\ StructInit /\ CodeInit /\ MainIdle /\ PureIdle

ArchFinished == arch_pc \in {"done", "raised"}

\* Both graph detectors on one directory, the architectural one first
\* (analyze_project, main.py:195-203).
Next ==
    \/ ArchAnalyzeFile /\ UNCHANGED <<pureVars, directory, project, configVars, structVars, codeVars, mainVars>>
    \/ ArchResolve /\ UNCHANGED <<pureVars, directory, project, configVars, structVars, codeVars, mainVars>>
    \/ ArchDetect /\ UNCHANGED <<pureVars, directory, project, configVars, structVars, codeVars, mainVars>>
    \/ ArchFinished /\ StructAnalyzeFile /\ UNCHANGED <<pureVars, directory, project, configVars, archVars, codeVars, mainVars>>
    \/ ArchFinished /\ StructWalkDone /\ UNCHANGED <<pureVars, directory, project, configVars, archVars, codeVars, mainVars>>
    \/ ArchFinished /\ StructDetect /\ UNCHANGED <<pureVars, directory, project, configVars, archVars, codeVars, mainVars>>

Spec == Init /\ [][Next]_vars

\* The code-smell detector on one directory (analyze_code_smells).
NextCode ==
    \/ CodeAnalyzeFile /\ UNCHANGED <<pureVars, directory, project, configVars, archVars, structVars, mainVars>>
    \/ CodeSummary /\ UNCHANGED <<pureVars, directory, project, configVars, archVars, structVars, mainVars>>

SpecCode == Init /\ [][NextCode]_vars

\* ConfigHandler on its own: the configuration files it is constructed from
\* and the sections it is asked for.
ConfigValues == {Num(-1), Num(0), Num(1), NotANumber}

Entries(keys) == UNION {[present -> ConfigValues] : present \in SUBSET keys}

ConfigFiles ==
    {ConfigFile("missing", <<>>), ConfigFile("malformed", <<>>)}
      \cup {ConfigFile("ok", [structural_smells |-> st, architectural_smells |-> ar]) :
               st \in Entries({"NOM_THRESHOLD", "LCOM_THRESHOLD"}),
               ar \in Entries({"MIN_CYCLE_SIZE"})}
      \cup {ConfigFile("ok", [code_smells |-> cd]) : cd \in Entries({"LONG_METHOD_LINES"})}

InitConfig ==
    /\ directory = <<>>
    /\ project = <<>>
    /\ config \in ConfigFiles
    /\ config_thresholds = load_thresholds(ConfigFile("ok", <<>>))
    /\ config_log = {}
    /\ config_pc = "new"
    /\ config_handed = NothingHanded
    /\ code_thresholds = NoThresholds
    /\ arch_thresholds = NoThresholds
    /\ struct_thresholds = NoThresholds
    /\ ArchInit /\ StructInit /\ CodeInit /\ MainIdle /\ PureIdle

NextConfig ==
    \/ ConfigConstruct /\ UNCHANGED <<pureVars, directory, project, archVars, structVars, codeVars, mainVars>>
    \/ ConfigGetThresholds /\ UNCHANGED <<pureVars, directory, project, archVars, structVars, codeVars, mainVars>>

SpecConfig == InitConfig /\ [][NextConfig]_vars

\* analyze_project from its start, on trees of at most MaxMainFiles files
MaxMainFiles == 1

InitMain ==
    /\ directory \in Directories
    /\ project \in {fs \in Projects : Len(fs) <= MaxMainFiles}
    /\ config \in {ConfigOf(t) : t \in ThresholdChoices} \cup {ConfigFile("missing", <<>>)}
    /\ config_thresholds = load_thresholds(ConfigFile("ok", <<>>))
    /\ config_log = {}
    /\ config_pc = "new"
    /\ config_handed = NothingHanded
    /\ code_thresholds = NoThresholds
    /\ arch_thresholds = NoThresholds
    /\ struct_thresholds = NoThresholds
    /\ ArchInit /\ StructInit /\ CodeInit
    /\ entry \in EntryPoints
    /\ smell_type \in IF entry = "analyze_project"
                      THEN {"None", "code", "architectural", "structural"}
                      ELSE {"None"}
    /\ main_pc = "config"
    /\ main_ran = <<>>
    /\ report = NoReport
    /\ PureIdle

ArchSteps ==
    \/ ArchAnalyzeFile /\ UNCHANGED arch_thresholds
    \/ ArchResolve /\ UNCHANGED arch_thresholds
    \/ ArchDetect /\ UNCHANGED arch_thresholds

StructSteps ==
    \/ StructAnalyzeFile /\ UNCHANGED struct_thresholds
    \/ StructWalkDone /\ UNCHANGED struct_thresholds
    \/ StructDetect /\ UNCHANGED struct_thresholds

NextMain ==
    \/ MainConfig /\ UNCHANGED <<pureVars, directory, project, archVars, structVars, codeVars>>
    \/ MainCode
          /\ UNCHANGED <<pureVars, directory, project, configVars, archVars, structVars,
                         code_smells, code_errors, code_files_analyzed,
                         code_files_with_errors, code_pc, code_i, code_ran>>
    \/ main_pc = "code" /\ (CodeAnalyzeFile \/ CodeSummary)
          /\ UNCHANGED <<pureVars, directory, project, configVars, archVars, structVars, mainVars>>
    \/ MainCodeReturns
          /\ UNCHANGED <<pureVars, directory, project, configVars, archVars, structVars, codeVars>>
    \/ MainArchitectural
          /\ UNCHANGED <<pureVars, directory, project, configVars, structVars, codeVars,
                         module_dependencies, module_functions, api_usage, file_paths,
                         external_dependencies, architectural_smells, arch_pc, arch_i,
                         arch_ran, arch_error>>
    \/ main_pc = "architectural" /\ ArchSteps
          /\ UNCHANGED <<pureVars, directory, project, configVars, structVars, codeVars, mainVars>>
    \/ MainArchitecturalReturns
          /\ UNCHANGED <<pureVars, directory, project, configVars, archVars, structVars, codeVars>>
    \/ MainStructural
          /\ UNCHANGED <<pureVars, directory, project, configVars, archVars, codeVars,
                         class_info, module_info, dependency_graph, struct_file_paths,
                         structural_smells, files_analyzed, files_with_errors, struct_pc,
                         struct_i, struct_ran, struct_failed>>
    \/ main_pc = "structural" /\ StructSteps
          /\ UNCHANGED <<pureVars, directory, project, configVars, archVars, codeVars, mainVars>>
    \/ MainStructuralReturns
          /\ UNCHANGED <<pureVars, directory, project, configVars, archVars, structVars, codeVars>>
    \/ MainReport
          /\ UNCHANGED <<pureVars, directory, project, configVars, archVars, structVars, codeVars>>

SpecMain == InitMain /\ [][NextMain]_vars

\* The detectors idle, for a rule or helper applied on its own
Idle ==
    /\ directory = <<>>
    /\ project = <<>>
    /\ config = ConfigFile("ok", <<>>)
    /\ config_thresholds = load_thresholds(ConfigFile("ok", <<>>))
    /\ config_log = {}
    /\ config_pc = "new"
    /\ config_handed = NothingHanded
    /\ code_thresholds = NoThresholds
    /\ arch_thresholds = NoThresholds
    /\ struct_thresholds = NoThresholds
    /\ ArchInit /\ StructInit /\ CodeInit /\ MainIdle

PureUnchanged ==
    UNCHANGED <<directory, project, configVars, archVars, structVars, codeVars,
                mainVars, pure_in>>

\* The severity a rule gives its finding, for two values of the rule's metric
\* under the same thresholds.
MaxMetric == 7
MaxThreshold == 3
MaxAux == 4

SeverityRules == {"CBO", "Too Many Branches", "Hub-like Dependency",
                  "Cyclic Dependency", "NOM"}

\* the severity of the finding the rule makes for metric value m ("None"
\* when it makes none); aux is the max_nesting of the method for Too Many
\* Branches and the length of the cycle for Cyclic Dependency
RuleSeverity(rule, threshold, aux, m) ==
    CASE rule = "CBO" ->
            IF m > 2 * threshold THEN calculate_cbo_severity(m, threshold) ELSE "None"
      [] rule = "Too Many Branches" ->
            IF m > threshold \/ aux > 3 THEN Severity15(m, threshold, 1, 1) ELSE "None"
      [] rule = "Hub-like Dependency" ->
            IF m >= threshold THEN HubSeverity(m, threshold) ELSE "None"
      [] rule = "Cyclic Dependency" ->
            IF aux >= 2 /\ m >= aux THEN CycleSeverity(aux, m) ELSE "None"
      [] OTHER ->
            IF m > threshold THEN Severity15(m, threshold, 1, 1) ELSE "None"

InitSeverity ==
    /\ Idle
    /\ pure_in \in [rule : SeverityRules, threshold : 1..MaxThreshold, aux : 0..MaxAux,
                    m1 : 0..MaxMetric, m2 : 0..MaxMetric]
    /\ pure_out = NoOutput

SeverityApply ==
    /\ ~pure_out.done
    /\ pure_out' = Output(<<RuleSeverity(pure_in.rule, pure_in.threshold, pure_in.aux,
                                         pure_in.m1),
                            RuleSeverity(pure_in.rule, pure_in.threshold, pure_in.aux,
                                         pure_in.m2)>>)
    /\ PureUnchanged

NextSeverity == SeverityApply

SpecSeverity == InitSeverity /\ [][NextSeverity]_vars

\* detect_dit on the classes of one module m: class i is named ClassNames[i]
\* and has no base, or one base written as a bare name or as m.Name.
MaxChain == 3
MaxDitThreshold == 2

ClassNames == <<"C1", "C2", "C3", "C4", "C5">>
DitModule == <<"m">>

BasesWritten(n) ==
    {<<>>} \cup {<<<<ClassNames[j]>>>> : j \in 1..n}
           \cup {<<DitModule \o <<ClassNames[j]>>>> : j \in 1..n}

ClassLists ==
    UNION {{[i \in 1..n |-> Class(ClassNames[i], b[i], <<M_run>>, {})] : b \in [1..n -> BasesWritten(n)]}
           : n \in 1..MaxChain}

InitDit ==
    /\ Idle
    /\ pure_in \in [classes : ClassLists, threshold : 0..MaxDitThreshold]
    /\ pure_out = NoOutput

\* analyze_class for every class of the module, then detect_dit
DitApply ==
    /\ ~pure_out.done
    /\ \E ci \in {StructAddClasses(EmptyDict, DitModule, pure_in.classes)} :
       \E g \in {InheritanceGraph(ci)} :
          pure_out' = Output(
             [class_info |-> ci,
              inheritance_graph |-> g,
              dit |-> [class_name \in Range(ci.keys) |-> DIT(g, class_name)],
              smells |-> detect_dit(ci, EmptyDict, EmptyGraph,
                                    DictPut(EmptyDict, DitModule, <<DitModule>>),
                                    [k \in {"DIT_THRESHOLD"} |-> pure_in.threshold]).smells])
    /\ PureUnchanged

NextDit == DitApply

SpecDit == InitDit /\ [][NextDit]_vars

\* detect_improper_api_usage on the recorded API calls of one module m: every
\* name of ApiNames called 0..MaxCallCount times.
MaxCallCount == 4

ApiNames == {"send", "load", "run"}
ApiModule == <<"m">>

\* the calls as analyze_file appends them, one name after the other
RECURSIVE Repeated(_, _)
Repeated(name, n) == IF n = 0 THEN <<>> ELSE <<name>> \o Repeated(name, n - 1)

ApiCalls(counts) ==
    Repeated("send", counts["send"]) \o Repeated("load", counts["load"])
       \o Repeated("run", counts["run"])

InitApi ==
    /\ Idle
    /\ pure_in \in [counts : [ApiNames -> 0..MaxCallCount], min_calls : {3, 6},
                    repetition_threshold : {40, 50, 60}]
    /\ pure_out = NoOutput

ApiApply ==
    /\ ~pure_out.done
    /\ LET calls == ApiCalls(pure_in.counts)
       IN  pure_out' = Output(
              detect_improper_api_usage(
                 EmptyGraph, EmptyDict,
                 IF calls = <<>> THEN EmptyDict ELSE DictPut(EmptyDict, ApiModule, calls),
                 DictPut(EmptyDict, ApiModule, <<ApiModule>>), EmptyDict,
                 [k \in {"MIN_API_CALLS", "API_REPETITION_THRESHOLD"} |->
                    IF k = "MIN_API_CALLS" THEN pure_in.min_calls
                    ELSE pure_in.repetition_threshold]).smells)
    /\ PureUnchanged

NextApi == ApiApply

SpecApi == InitApi /\ [][NextApi]_vars

\* detect_branches on a class with one method, whose body is any statement
\* tree of at most MaxStmts nodes (statements that are neither compound nor
\* nested may be left out: the walk passes over them).
MaxStmts == 4

BranchModule == <<"m">>

\* the nodes that can come next in the walk after the nodes of b
NextStmts(b) ==
    {s \in {Stmt(k, p, o, IF k = "try" THEN 1 ELSE 0) :
               k \in StmtKinds, p \in 0..Len(b), o \in BOOLEAN} :
        /\ s.parent # 0 => b[s.parent].kind # "expr"
        /\ s.orelse => (s.parent # 0 /\ b[s.parent].kind = "if")
        /\ b # <<>> =>
              /\ b[Len(b)].parent <= s.parent
              /\ (b[Len(b)].parent = s.parent /\ b[Len(b)].orelse) => s.orelse}

RECURSIVE BodiesOf(_)
BodiesOf(n) ==
    IF n = 0 THEN {<<>>}
    ELSE UNION {{b} \cup (IF Len(b) = n - 1 THEN {Append(b, s) : s \in NextStmts(b)} ELSE {})
                  : b \in BodiesOf(n - 1)}

BranchMethods ==
    {[name |-> "run", isProperty |-> FALSE], [name |-> "run", isProperty |-> TRUE],
     [name |-> "is_ready", isProperty |-> FALSE]}

InitBranches ==
    /\ Idle
    /\ pure_in \in [body : BodiesOf(MaxStmts), method : BranchMethods,
                    configured : BOOLEAN]
    /\ pure_out = NoOutput

\* analyze_class for the class, then detect_branches
BranchesApply ==
    /\ ~pure_out.done
    /\ \E info \in {analyze_branches(pure_in.body)} :
       \E ci \in {StructAddClasses(
                     EmptyDict, BranchModule,
                     <<Class("Big", <<>>,
                             <<Method(pure_in.method.name, pure_in.method.isProperty,
                                      {}, {}, 1, info.count, info.max_nesting, FALSE)>>,
                             {})>>)} :
          pure_out' = Output(
             [count |-> info.count,
              max_nesting |-> info.max_nesting,
              smells |-> detect_branches(
                            ci, EmptyDict, EmptyGraph,
                            DictPut(EmptyDict, BranchModule, <<BranchModule>>),
                            IF pure_in.configured
                            THEN [k \in {"MAX_BRANCHES"} |-> 2]
                            ELSE [k \in {} |-> 0]).smells])
    /\ PureUnchanged

NextBranches == BranchesApply

SpecBranches == InitBranches /\ [][NextBranches]_vars

\* The two line classifiers on the lines of one file, each going through the
\* lines in its own time.
MaxLines == 4

\* the lines a file is made of: an empty line, a comment, a line of three
\* quotes, a docstring on one line, an import, a statement, and the last line
\* of a docstring with its text before the quotes
SourceLines == {"", "# note", "'''", "'''Doc.'''", "import os", "x = 1", "ends.'''"}

\* what the classifiers test on line.strip(): `not stripped`,
\* startswith('#'), startswith('"""') or startswith("'''"),
\* startswith('import ') or startswith('from ')
StrippedKind(line) ==
    CASE line = "" -> "blank"
      [] line = "# note" -> "comment"
      [] line \in {"'''", "'''Doc.'''"} -> "triple"
      [] line = "import os" -> "import"
      [] OTHER -> "code"

InitLines ==
    /\ Idle
    /\ pure_in \in UNION {[1..n -> SourceLines] : n \in 0..MaxLines}
    /\ pure_out = [done |-> FALSE,
                   value |-> [loc_i |-> 0, loc |-> LocStart,
                              length_i |-> 0, length |-> FileLengthStart]]

\* detect_loc reads its next line
LocStep ==
    /\ pure_out.value.loc_i < Len(pure_in)
    /\ \E i \in {pure_out.value.loc_i + 1} :
          pure_out' = [done |-> i = Len(pure_in) /\ pure_out.value.length_i = Len(pure_in),
                       value |-> [pure_out.value EXCEPT
                                     !.loc_i = i,
                                     !.loc = LocLine(@, StrippedKind(pure_in[i]))]]
    /\ PureUnchanged

\* detect_file_length reads its next line
FileLengthStep ==
    /\ pure_out.value.length_i < Len(pure_in)
    /\ \E i \in {pure_out.value.length_i + 1} :
          pure_out' = [done |-> i = Len(pure_in) /\ pure_out.value.loc_i = Len(pure_in),
                       value |-> [pure_out.value EXCEPT
                                     !.length_i = i,
                                     !.length = FileLengthLine(@, StrippedKind(pure_in[i]))]]
    /\ PureUnchanged

NextLines == LocStep \/ FileLengthStep

SpecLines == InitLines /\ [][NextLines]_vars

\* analyze_project run twice on the same directory with the same
\* configuration file: between the runs the walk may come to enumerate the
\* files in another order.
InitTwoRuns ==
    /\ directory \in Directories
    /\ project \in Projects
    /\ config \in {ConfigOf(t) : t \in ThresholdChoices}
    /\ config_thresholds = load_thresholds(ConfigFile("ok", <<>>))
    /\ config_log = {}
    /\ config_pc = "new"
    /\ config_handed = NothingHanded
    /\ code_thresholds = NoThresholds
    /\ arch_thresholds = NoThresholds
    /\ struct_thresholds = NoThresholds
    /\ ArchInit /\ StructInit /\ CodeInit
    /\ entry = "analyze_project"
    /\ smell_type = "None"
    /\ main_pc = "config"
    /\ main_ran = <<>>
    /\ report = NoReport
    /\ PureIdle

WalkOrders(fs) ==
    {gs \in {[i \in 1..Len(fs) |-> fs[p[i]]] : p \in Permutations(1..Len(fs))} :
        IsWalkOrder(gs)}

\* the first run has exited, its CSV file is kept aside, and the program is
\* started again
RunAgain ==
    /\ main_pc = "done"
    /\ ~pure_out.done
    /\ pure_out' = Output(CsvOf(report))
    /\ project' \in WalkOrders(project)
    /\ config_thresholds' = load_thresholds(ConfigFile("ok", <<>>))
    /\ config_log' = {}
    /\ config_pc' = "new"
    /\ code_thresholds' = NoThresholds
    /\ arch_thresholds' = NoThresholds
    /\ struct_thresholds' = NoThresholds
    /\ module_dependencies' = EmptyGraph
    /\ module_functions' = EmptyDict
    /\ api_usage' = EmptyDict
    /\ file_paths' = EmptyDict
    /\ external_dependencies' = EmptyDict
    /\ architectural_smells' = <<>>
    /\ arch_pc' = "walk"
    /\ arch_i' = 1
    /\ arch_ran' = <<>>
    /\ arch_error' = NoError
    /\ class_info' = EmptyDict
    /\ module_info' = EmptyDict
    /\ dependency_graph' = EmptyGraph
    /\ struct_file_paths' = EmptyDict
    /\ structural_smells' = <<>>
    /\ files_analyzed' = 0
    /\ files_with_errors' = 0
    /\ struct_pc' = "walk"
    /\ struct_i' = 1
    /\ struct_ran' = <<>>
    /\ struct_failed' = <<>>
    /\ main_pc' = "config"
    /\ main_ran' = <<>>
    /\ report' = NoReport
    /\ UNCHANGED <<directory, config, config_handed, codeVars, entry, smell_type, pure_in>>

NextTwoRuns ==
    \/ MainConfig /\ UNCHANGED <<pureVars, directory, project, archVars, structVars, codeVars>>
    \/ MainCode
          /\ UNCHANGED <<pureVars, directory, project, configVars, archVars, structVars,
                         code_smells, code_errors, code_files_analyzed,
                         code_files_with_errors, code_pc, code_i, code_ran>>
    \/ MainArchitectural
          /\ UNCHANGED <<pureVars, directory, project, configVars, structVars, codeVars,
                         module_dependencies, module_functions, api_usage, file_paths,
                         external_dependencies, architectural_smells, arch_pc, arch_i,
                         arch_ran, arch_error>>
    \/ main_pc = "architectural" /\ ArchSteps
          /\ UNCHANGED <<pureVars, directory, project, configVars, structVars, codeVars, mainVars>>
    \/ MainArchitecturalReturns
          /\ UNCHANGED <<pureVars, directory, project, configVars, archVars, structVars, codeVars>>
    \/ MainStructural
          /\ UNCHANGED <<pureVars, directory, project, configVars, archVars, codeVars,
                         class_info, module_info, dependency_graph, struct_file_paths,
                         structural_smells, files_analyzed, files_with_errors, struct_pc,
                         struct_i, struct_ran, struct_failed>>
    \/ main_pc = "structural" /\ StructSteps
          /\ UNCHANGED <<pureVars, directory, project, configVars, archVars, codeVars, mainVars>>
    \/ MainStructuralReturns
          /\ UNCHANGED <<pureVars, directory, project, configVars, archVars, structVars, codeVars>>
    \/ MainReport
          /\ UNCHANGED <<pureVars, directory, project, configVars, archVars, structVars, codeVars>>
    \/ RunAgain

SpecTwoRuns == InitTwoRuns /\ [][NextTwoRuns]_vars

\* detect_cyclic_dependencies on a dependency graph of four modules with at
\* most MaxEdges imports between them.
MaxEdges == 8

CycleModules(last) == <<<<"a">>, <<"b">>, <<"c">>, <<last>>>>

ImportPairs(nodes) ==
    {<<nodes[1], nodes[1]>>}
       \cup {p \in {<<nodes[i], nodes[j]>> : i, j \in 1..Len(nodes)} : p[1] # p[2]}

InitCycles ==
    /\ Idle
    /\ \E last \in {"d", "utils"} :
       \E edges \in {E \in SUBSET ImportPairs(CycleModules(last)) : Cardinality(E) <= MaxEdges} :
       \E min \in {2, 3} : \E max \in {2, 5} :
          pure_in = [graph |-> [nodes |-> CycleModules(last), edges |-> edges],
                     thresholds |-> [k \in {"MIN_CYCLE_SIZE", "MAX_CYCLE_SIZE"} |->
                                        IF k = "MIN_CYCLE_SIZE" THEN min ELSE max]]
    /\ pure_out = NoOutput

CyclesApply ==
    /\ ~pure_out.done
    /\ \E reports \in {CyclicReports(pure_in.graph, pure_in.thresholds)} :
          pure_out' = Output(
             [reports |-> reports,
              smells |-> detect_cyclic_dependencies(pure_in.graph, EmptyDict, EmptyDict,
                                                    EmptyDict, EmptyDict,
                                                    pure_in.thresholds).smells])
    /\ PureUnchanged

NextCycles == CyclesApply

SpecCycles == InitCycles /\ [][NextCycles]_vars

\* _build_field_usage_map on a class with __init__ and the methods run, load
\* and send, every pass of its propagation loop a step.  fields[m] = the
\* fields m reads or writes as self.<field>, self_calls[m] = the methods m
\* calls as self.<name>(...), other_calls[m] = the names m calls on another
\* object; the three hold at most MaxCallEdges calls together.
MaxCallEdges == 2

UsageNames == {"run", "load", "send"}
UsageField(name) == CASE name = "run" -> "x" [] name = "load" -> "y" [] OTHER -> "z"

CallEdges == UsageNames \X UsageNames \X {"self", "other"}

\* the method as analyze_class and the first pass see it: self.<name>(...) is
\* an attribute of self as well as a call, <object>.<name>(...) only a call
UsageMethod(name, in) ==
    Method(name, FALSE, in.fields[name] \cup in.self_calls[name],
           in.self_calls[name] \cup in.other_calls[name], 1, 0, 0, FALSE)

UsageClass(in) ==
    Class("Big", <<>>,
          <<M_init, UsageMethod("run", in), UsageMethod("load", in), UsageMethod("send", in)>>,
          {})

InitUsage ==
    /\ Idle
    /\ pure_in = <<>>
    /\ pure_out = [done |-> FALSE,
                   value |-> [pc |-> "class", usage |-> <<>>, grew |-> TRUE]]

UsageInputs ==
    {[fields |-> [m \in UsageNames |-> IF m \in used THEN {UsageField(m)} ELSE {}],
      self_calls |-> [m \in UsageNames |->
                         {c \in UsageNames : <<m, c, "self">> \in edges}],
      other_calls |-> [m \in UsageNames |->
                          {c \in UsageNames : <<m, c, "other">> \in edges}]] :
        edges \in {E \in SUBSET CallEdges : Cardinality(E) <= MaxCallEdges},
        used \in SUBSET UsageNames}

\* the class _build_field_usage_map is called for
UsageClassGiven ==
    /\ pure_out.value.pc = "class"
    /\ pure_in' \in UsageInputs
    /\ pure_out' = [pure_out EXCEPT !.value.pc = "first pass"]
    /\ UNCHANGED <<directory, project, configVars, archVars, structVars, codeVars,
                   mainVars>>

\* the first pass: the direct uses of every method
UsageFirstPass ==
    /\ ~pure_out.done
    /\ pure_out.value.pc = "first pass"
    /\ pure_out' = [done |-> FALSE,
                    value |-> [pc |-> "while",
                               usage |-> DirectUsage(RegularMethods(ClassEntry(UsageClass(pure_in)))),
                               grew |-> TRUE]]
    /\ PureUnchanged

\* one pass of the loop with `changed` set whenever the method calls anything
UsagePass_AlwaysChanged ==
    /\ ~pure_out.done
    /\ pure_out.value.pc = "while"
    /\ \E info \in {ClassEntry(UsageClass(pure_in))} :
       \E pass \in {PropagatePass(pure_out.value.usage, FALSE, RegularMethods(info),
                                  info.method_calls)} :
          pure_out' = [done |-> DOMAIN info.method_calls = {},
                       value |-> [pc |-> "while", usage |-> pass.usage,
                                  grew |-> pass.usage # pure_out.value.usage]]
    /\ PureUnchanged

\* one iteration of `while changed`: a pass over the methods; the map is
\* returned when the pass changed nothing
UsagePass ==
    /\ ~pure_out.done
    /\ pure_out.value.pc = "while"
    /\ \E info \in {ClassEntry(UsageClass(pure_in))} :
       \E pass \in {PropagatePass(pure_out.value.usage, FALSE, RegularMethods(info),
                                  info.method_calls)} :
          pure_out' = [done |-> ~pass.changed,
                       value |-> [pc |-> "while", usage |-> pass.usage,
                                  grew |-> pass.usage # pure_out.value.usage]]
    /\ PureUnchanged

NextUsage == UsageClassGiven \/ UsageFirstPass \/ UsagePass

SpecUsage == InitUsage /\ [][NextUsage]_vars

\* once called, _build_field_usage_map is not stopped from outside
SpecUsageRuns == SpecUsage /\ WF_vars(UsageFirstPass \/ UsagePass)

\* -------------------------------------------------------------- properties
Parsed(i) == project[i].content.ok

StructReturned == struct_pc = "done"

\* the files of the tree import each other in one ring, each with one plain
\* `import <stem of the next>`, all directly under the analysed directory
IsImportRing ==
    LET k == Len(project)
    IN  /\ k >= 2
        /\ \A i \in 1..k :
              /\ Parsed(i)
              /\ Len(project[i].path) = 1
              /\ Len(project[i].content.imports) = 1
              /\ ~project[i].content.imports[1].isFrom
        /\ \E p \in [1..k -> 1..k] :
              /\ \A m, n \in 1..k : m # n => p[m] # p[n]
              /\ \A n \in 1..k :
                    project[p[n]].content.imports[1].module
                       = project[p[(n % k) + 1]].path[1]

CyclicFindings ==
    {i \in 1..Len(architectural_smells) :
        architectural_smells[i].name = "Cyclic Dependency"}

\* C1: for a directory whose k parseable modules form an import ring of a
\* size within [MIN_CYCLE_SIZE, MAX_CYCLE_SIZE], detect_smells leaves exactly
\* one 'Cyclic Dependency' finding, of severity Medium (in either spelling)
\* when k = 2.
C1_RingYieldsOneCyclicFinding ==
    (/\ arch_pc = "done"
     /\ IsImportRing
     /\ Thr(arch_thresholds, "MIN_CYCLE_SIZE", 2) <= Len(project)
     /\ Len(project) <= Thr(arch_thresholds, "MAX_CYCLE_SIZE", 5))
    => /\ Cardinality(CyclicFindings) = 1
       /\ Len(project) = 2 =>
             \A i \in CyclicFindings :
                architectural_smells[i].severity \in {"Medium", "medium"}

\* C2: in both detectors, once a detection method has raised, every later
\* method of the list has still run when detect_smells ends, and what it
\* finds is in the finding list.
C2_LaterMethodsRunAfterARaise ==
    /\ (arch_pc \in {"done", "raised"} /\ arch_ran # <<>>) =>
          /\ arch_ran = ArchMethods
          /\ \A j \in 1..Len(ArchMethods) :
                Range(ArchRun(ArchMethods[j], module_dependencies, module_functions,
                              api_usage, file_paths, external_dependencies,
                              arch_thresholds).smells)
                   \subseteq Range(architectural_smells)
    /\ (StructReturned /\ struct_ran # <<>>) =>
          /\ struct_ran = StructMethods
          /\ \A j \in 1..Len(StructMethods) :
                Range(StructRun(StructMethods[j], class_info, module_info,
                                dependency_graph, struct_file_paths,
                                struct_thresholds).smells)
                   \subseteq Range(structural_smells)

ArchTables == <<module_dependencies, module_functions, api_usage, file_paths,
                external_dependencies, architectural_smells>>

StructTables == <<class_info, module_info, dependency_graph, struct_file_paths,
                  structural_smells>>

ArchAttemptsUnparsable ==
    arch_pc = "walk" /\ arch_i <= Len(project) /\ ~Parsed(arch_i)

StructAttemptsUnparsable ==
    ArchFinished /\ struct_pc = "walk" /\ struct_i <= Len(project) /\ ~Parsed(struct_i)

ParseFailureLeavesTables ==
    /\ ArchAttemptsUnparsable =>
          (ArchTables' = ArchTables /\ arch_pc' = "walk" /\ arch_i' = arch_i + 1)
    /\ StructAttemptsUnparsable =>
          (StructTables' = StructTables /\ struct_pc' = "walk"
             /\ struct_i' = struct_i + 1)

EveryParsableFileAnalysed ==
    /\ arch_pc # "walk" =>
          \A i \in 1..Len(project) :
             Parsed(i) => DictHas(file_paths, ArchModuleName(directory, project[i].path))
    /\ struct_pc # "walk" =>
          \A i \in 1..Len(project) :
             Parsed(i) => DictHas(module_info, StructModuleName(project[i].path))

\* C4: the step that attempts a file that fails to parse or decode leaves the
\* detector's tables and finding list as they were and moves on to the next
\* file, and at the end of the walk every parsable file has been analysed.
C4_ParseFailureIsLocal ==
    [][ParseFailureLeavesTables]_vars /\ []EveryParsableFileAnalysed

\* a walk of both detectors over a tree in which a file that does not parse
\* comes before one that does
C4_Witness ==
    /\ arch_pc = "done"
    /\ StructReturned
    /\ files_with_errors >= 1
    /\ \E i, j \in 1..Len(project) :
          /\ i < j /\ ~Parsed(i) /\ Parsed(j)
          /\ DictHas(file_paths, ArchModuleName(directory, project[j].path))
          /\ DictHas(module_info, StructModuleName(project[j].path))

IsExternal(dep) == StartsWithStdlibName(dep) \/ FindSpec(dep[1])

\* C5: after analyze_directory no edge of the module-dependency graph
\* targets a standard-library or third-party module, and every such import
\* is recorded in external_dependencies of the importing module.
C5_NoExternalEdgeAfterResolve ==
    arch_pc \in {"detect", "done"} =>
       /\ \A e \in module_dependencies.edges : ~IsExternal(e[2])
       /\ \A i \in 1..Len(project) :
             Parsed(i) =>
                LET module == ArchModuleName(directory, project[i].path)
                    imports == project[i].content.imports
                IN  \A n \in 1..Len(imports) :
                       LET dep == ArchImportName(module, imports[n])
                       IN  IsExternal(dep) =>
                              \E kind \in {"stdlib", "third_party"} :
                                 <<kind, dep>> \in DictGet(external_dependencies, module, {})

\* the path of a file relative to the analysed directory, extension cut off,
\* separators replaced by dots
RelativeIdentifier(path) == Flatten(path)

RelativeIdentifiers == {RelativeIdentifier(project[i].path) : i \in {j \in 1..Len(project) : Parsed(j)}}

\* C6: the module identifiers each detector builds are the paths of the
\* analysed files relative to the analysed directory, extension cut off and
\* separators replaced by dots.
C6_IdentifiersAreRelativePaths ==
    /\ arch_pc # "walk" => Range(file_paths.keys) = RelativeIdentifiers
    /\ struct_pc # "walk" => Range(module_info.keys) = RelativeIdentifiers

\* C7: when two different files resolve to the same module identifier, the
\* run reports an error.
C7_CollidingIdentifiersAreAnError ==
    /\ (/\ arch_pc \in {"done", "raised"}
        /\ \E i, j \in 1..Len(project) :
              /\ i # j /\ Parsed(i) /\ Parsed(j)
              /\ ArchModuleName(directory, project[i].path)
                    = ArchModuleName(directory, project[j].path))
       => arch_error.raised
    /\ (/\ StructReturned
        /\ \E i, j \in 1..Len(project) :
              /\ i # j /\ Parsed(i) /\ Parsed(j)
              /\ StructModuleName(project[i].path) = StructModuleName(project[j].path))
       => (files_with_errors > 0 \/ struct_failed # <<>>)


\* the rule that reads each required structural threshold
RuleOf(threshold) ==
    CASE threshold = "NOM_THRESHOLD" -> "detect_nom"
      [] threshold \in {"WMPC1_THRESHOLD", "WMPC2_THRESHOLD"} -> "detect_wmpc"
      [] threshold = "SIZE2_THRESHOLD" -> "detect_size2"
      [] threshold = "WAC_THRESHOLD" -> "detect_wac"
      [] threshold = "LCOM_THRESHOLD" -> "detect_lcom"
      [] threshold = "RFC_THRESHOLD" -> "detect_rfc"
      [] threshold = "NOCC_THRESHOLD" -> "detect_nocc"
      [] threshold = "DIT_THRESHOLD" -> "detect_dit"
      [] threshold = "LOC_THRESHOLD" -> "detect_loc"
      [] OTHER -> "detect_cbo"

\* C3: when a rule raises on a file, the error analyze_code_smells receives
\* names that file and the first rule that raised, and every rule of the
\* list has run on the file.
C3_RuleErrorNamesRuleAndOthersRun ==
    (code_i > 1 /\ Parsed(code_i - 1)) =>
       LET file_path == FullPath(directory, project[code_i - 1].path)
           Raises(j) == CodeRun(CodeMethods[j], project[code_i - 1].content, file_path,
                                code_thresholds).raised
           raising == {j \in 1..Len(CodeMethods) : Raises(j)}
       IN  raising # {} =>
              /\ code_ran = CodeMethods
              /\ \E n \in 1..Len(code_errors) :
                    /\ code_errors[n].file = file_path
                    /\ code_errors[n].function
                          = CodeMethods[CHOOSE j \in raising : \A o \in raising : j <= o]

\* C8: for every configured threshold that is not a strictly positive
\* number, a warning is logged and the value get_thresholds hands out for it
\* is a strictly positive number, never the configured one.
C8_InvalidThresholdReplaced ==
    (config_pc = "ready" /\ config_handed.smell_type \in DOMAIN config.sections) =>
       LET configured == config.sections[config_handed.smell_type]
       IN  \A k \in DOMAIN configured :
              (~configured[k].isNumber \/ configured[k].v <= 0) =>
                 /\ [kind |-> "invalid", threshold |-> k] \in config_log
                 /\ k \in DOMAIN config_handed.thresholds
                 /\ config_handed.thresholds[k].isNumber
                 /\ config_handed.thresholds[k].v > 0

\* C9: for each required structural threshold the configuration lacks, a
\* warning is logged and the rule that reads it has run to its end when
\* detect_smells returns.
C9_MissingThresholdRuleStillRuns ==
    (StructReturned /\ struct_ran # <<>>) =>
       \A k \in required_structural_thresholds \ DOMAIN struct_thresholds :
          /\ [kind |-> "missing", threshold |-> k] \in config_log
          /\ RuleOf(k) \in Range(struct_ran)
          /\ RuleOf(k) \notin Range(struct_failed)


\* C10: without a family selection analyze_project starts the code, the
\* architectural and the structural detector once each, in that order; with
\* a family selected it starts that family's detector and no other.
C10_DetectorsRunInOrder ==
    (entry = "analyze_project" /\ main_pc = "done") =>
       main_ran = IF smell_type = "None" THEN <<"code", "architectural", "structural">>
                  ELSE <<smell_type>>

\* C11: when an entry point has gone through generate_report, the text
\* report and the CSV report have both been written, whatever the finding
\* lists hold.
C11_BothReportsWritten ==
    main_pc = "done" => (report.txt /\ report.csv)

\* C12: analyze_project on a directory without any source file, with a
\* configuration that loads, never ends in an exception, runs on until it
\* has returned, and has then written both reports with every section of
\* the text reading 'No ... smells detected.'.
C12_EmptyDirectoryReportsNothing ==
    (entry = "analyze_project" /\ project = <<>> /\ config.status = "ok") =>
       /\ main_pc # "raised"
       /\ main_pc # "done" => ENABLED NextMain
       /\ main_pc = "done" =>
             /\ report.txt /\ report.csv
             /\ report.text = <<Section("structural", <<>>), Section("code", <<>>),
                                Section("architectural", <<>>)>>

\* analyze_project has returned for an empty directory after the
\* architectural detector raised inside analyze_architectural_smells
C12_Witness ==
    /\ entry = "analyze_project" /\ smell_type = "None"
    /\ project = <<>> /\ config.status = "ok"
    /\ arch_pc = "raised"
    /\ struct_pc = "done"
    /\ main_pc = "done"
    /\ report.csv

Severities == {"Low", "Medium", "High"}

\* C13: every finding in the finding list of each of the three detectors
\* has a severity that is one of Low, Medium, High.
C13_SeverityIsLowMediumHigh ==
    /\ \A i \in 1..Len(code_smells) : code_smells[i].severity \in Severities
    /\ \A i \in 1..Len(architectural_smells) :
          architectural_smells[i].severity \in Severities
    /\ \A i \in 1..Len(structural_smells) :
          structural_smells[i].severity \in Severities

\* the classes a 'Large Class' finding of the code detector can be about: the
\* classes of that name in the file the finding names
ClassesOfFinding(smell) ==
    {c \in UNION {Range(project[j].content.classes) :
                     j \in {n \in 1..Len(project) :
                               FullPath(directory, project[n].path) = smell.file_path}} :
        <<c.name>> = smell.module_class}

\* C14: a 'High Number of Methods (NOM)' finding and a 'Large Class' finding
\* about a class with n counted methods carry severity High when n is above
\* 1.5 times the rule's threshold and Medium otherwise.
C14_MethodCountSeverity ==
    /\ \A i \in 1..Len(structural_smells) :
          structural_smells[i].name = "High Number of Methods (NOM)" =>
             LET n == Len(RegularMethods(DictGet(class_info,
                                                 structural_smells[i].module_class, <<>>)))
                 configured == Thr(struct_thresholds, "NOM_THRESHOLD", 0)
                 threshold == IF configured = 0 THEN 10 ELSE configured
             IN  structural_smells[i].severity
                    = IF 2 * n > 3 * threshold THEN "High" ELSE "Medium"
    /\ \A i \in 1..Len(code_smells) :
          code_smells[i].name = "Large Class" =>
             \A c \in ClassesOfFinding(code_smells[i]) :
                code_smells[i].severity
                   = IF 2 * Len(NonTrivialMethods(c))
                           > 3 * code_thresholds["LARGE_CLASS_METHODS"]
                     THEN "High" ELSE "Medium"

\* the order Low < Medium < High, whichever way the detector spells the names
Rank(severity) ==
    CASE severity \in {"Low", "low"} -> 1
      [] severity \in {"Medium", "medium"} -> 2
      [] severity \in {"High", "high"} -> 3

NamesProjectClass(base, classes) ==
    \E i \in 1..Len(classes) : classes[i].name = base[Len(base)]

FlaggedIsolated(class_name) ==
    \E i \in 1..Len(pure_out.value.smells) :
       /\ pure_out.value.smells[i].name = "Isolated Class in Inheritance Tree"
       /\ pure_out.value.smells[i].module_class = class_name

\* C16: the DIT of a class without a base class of the project, and not
\* flagged isolated, is 0, and the DIT of the root `object` is 0.
C16_DitOfBaselessClassIsZero ==
    pure_out.done =>
       /\ \A i \in 1..Len(pure_in.classes) :
             LET c == pure_in.classes[i]
                 class_name == DitModule \o <<c.name>>
             IN  (/\ ~\E j \in 1..Len(c.bases) : NamesProjectClass(c.bases[j], pure_in.classes)
                  /\ ~FlaggedIsolated(class_name))
                 => pure_out.value.dit[class_name] = 0
       /\ DIT(pure_out.value.inheritance_graph, Object) = 0

\* C1 has no base and every later class names the class before it
IsChain(classes) ==
    /\ classes[1].bases = <<>>
    /\ \A i \in 2..Len(classes) : classes[i].bases = <<<<classes[i - 1].name>>>>

DitFinding(class_name) ==
    \E i \in 1..Len(pure_out.value.smells) :
       /\ pure_out.value.smells[i].name = "Deep Inheritance Tree (DIT)"
       /\ pure_out.value.smells[i].module_class = class_name

\* C17: in a chain C1..Ck of one module the DIT of C(i+1) is the DIT of Ci
\* plus one, and the classes with a DIT finding are those deeper in the chain
\* than DIT_THRESHOLD.
C17_ChainDepthGrowsByOne ==
    (pure_out.done /\ IsChain(pure_in.classes)) =>
       /\ \A i \in 1..(Len(pure_in.classes) - 1) :
             pure_out.value.dit[DitModule \o <<ClassNames[i + 1]>>]
                = pure_out.value.dit[DitModule \o <<ClassNames[i]>>] + 1
       /\ \A i \in 1..Len(pure_in.classes) :
             DitFinding(DitModule \o <<ClassNames[i]>>) <=> i > pure_in.threshold

\* a class that declares no method and no field
DeclaresNothing(class_name) ==
    /\ DictHas(class_info, class_name)
    /\ DictGet(class_info, class_name, <<>>).methods = <<>>
    /\ DictGet(class_info, class_name, <<>>).fields = {}

\* C18: after detect_smells of the structural detector no finding is about a
\* class that declares 0 methods and 0 fields.
C18_NoFindingForEmptyClass ==
    struct_pc = "done" =>
       \A i \in 1..Len(structural_smells) :
          ~DeclaresNothing(structural_smells[i].module_class)

\* the modules of the project that define a function of the name
DefiningModules(func) ==
    {ArchModuleName(directory, project[i].path) :
        i \in {j \in 1..Len(project) :
                 Parsed(j) /\ func \in FunctionNames(project[j].content)}}

ScatteredFindings ==
    {i \in 1..Len(architectural_smells) :
        architectural_smells[i].name = "Scattered Functionality"}

\* C19: detect_scattered_functionality makes one finding for every function
\* name that passes the name filter and is defined in at least
\* MIN_SCATTERED_OCCURRENCES modules of the project, and none for any other
\* name; a module that only imports the name is no occurrence.
C19_ScatteredCountsDefiningModules ==
    arch_pc = "done" =>
       /\ ScatteredFunctions(module_functions, arch_thresholds)
             = {f \in UNION Range(module_functions.val) :
                  /\ ScatteredName(f)
                  /\ Cardinality(DefiningModules(f))
                        >= Thr(arch_thresholds, "MIN_SCATTERED_OCCURRENCES", 3)}
       /\ Cardinality(ScatteredFindings)
             = Cardinality(ScatteredFunctions(module_functions, arch_thresholds))

\* C20: a module with at least MIN_API_CALLS recorded calls gets a 'Potential
\* Improper API Usage' finding exactly when some name is called at least 3
\* times and the calls of such names are at least API_REPETITION_THRESHOLD of
\* all calls, the ratio equal to the threshold included.
C20_ImproperApiUsageAtThreshold ==
    LET counts == pure_in.counts
        total == counts["send"] + counts["load"] + counts["run"]
        R == {c \in ApiNames : counts[c] >= 3}
        sum == (IF "send" \in R THEN counts["send"] ELSE 0)
                  + (IF "load" \in R THEN counts["load"] ELSE 0)
                  + (IF "run" \in R THEN counts["run"] ELSE 0)
    IN  (pure_out.done /\ total >= pure_in.min_calls) =>
           ((\E i \in 1..Len(pure_out.value) :
                pure_out.value[i].name = "Potential Improper API Usage")
            <=> (R # {} /\ 100 * sum >= pure_in.repetition_threshold * total))

\* C21: two runs on the same directory with the same configuration write the
\* same CSV rows in the same order, whatever order the walk enumerates the
\* files in.
C21_TwoRunsWriteTheSameCsv ==
    (pure_out.done /\ main_pc = "done" /\ report.csv) => CsvOf(report) = pure_out.value

\* the paths of the source files of the analysed tree
SourceFiles == {FullPath(directory, project[i].path) : i \in 1..Len(project)}

\* C22: every finding about a module or a class carries the path of an
\* analysed source file, never 'Unknown' (no rule of the architectural or the
\* structural detector makes a finding about the project as a whole).
C22_FindingsCarryASourceFile ==
    /\ \A i \in 1..Len(architectural_smells) :
          /\ architectural_smells[i].file_path # Unknown
          /\ architectural_smells[i].file_path \in SourceFiles
    /\ \A i \in 1..Len(structural_smells) :
          /\ structural_smells[i].file_path # Unknown
          /\ structural_smells[i].file_path \in SourceFiles

\* the kept cycles of the input graph
KeptCycles ==
    {c \in simple_cycles(pure_in.graph) : CycleKept(c, pure_in.thresholds)}

\* C23: for every node set of a kept cycle there is exactly one 'Cyclic
\* Dependency' finding, reporting the greatest strength of the kept cycles on
\* that node set, and there is no finding for a dropped cycle.
C23_OneFindingPerNodeSet ==
    pure_out.done =>
       LET reports == pure_out.value.reports
       IN  /\ Len(pure_out.value.smells) = Len(reports)
           /\ \A i \in 1..Len(reports) :
                 /\ pure_out.value.smells[i].name = "Cyclic Dependency"
                 /\ reports[i].cycle \in KeptCycles
           /\ \A c \in KeptCycles :
                 /\ Cardinality({i \in 1..Len(reports) :
                                    Range(reports[i].cycle) = Range(c)}) = 1
                 /\ \A i \in 1..Len(reports) :
                       Range(reports[i].cycle) = Range(c)
                          => reports[i].strength >= cycle_strength(pure_in.graph, c)

\* two kept cycles on the same node set with different strengths
C23_Witness ==
    /\ pure_out.done
    /\ \E c, o \in KeptCycles :
          /\ Range(c) = Range(o)
          /\ cycle_strength(pure_in.graph, c) < cycle_strength(pure_in.graph, o)
    /\ \E c \in simple_cycles(pure_in.graph) : c \notin KeptCycles
    /\ Len(pure_out.value.smells) >= 2

\* C24: after the file loop of a batch with a files attempted and e of them
\* failing, the summary reports a files, e files with errors and the success
\* rate (a - e) / a, which lies between 0 and 1.
C24_SummaryCountsAttemptedFiles ==
    struct_pc \in {"detect", "done"} =>
       LET a == Len(project)
           e == Cardinality({i \in 1..Len(project) : ~Parsed(i)})
           summary == AnalysisSummary(files_analyzed, files_with_errors)
       IN  /\ summary.files_analyzed = a
           /\ summary.files_with_errors = e
           /\ summary.rate_num * (IF a >= 1 THEN a ELSE 1) = (a - e) * summary.rate_den
           /\ 0 <= summary.rate_num
           /\ summary.rate_num <= summary.rate_den

\* the methods reachable from those of ms through calls self.<name>(...)
RECURSIVE ReachableFrom(_)
ReachableFrom(ms) ==
    LET more == ms \cup UNION {pure_in.self_calls[m] : m \in ms}
    IN  IF more = ms THEN ms ELSE ReachableFrom(more)

\* C25: on return from _build_field_usage_map, usage[m] is the union of the
\* direct self.<attr> accesses of the methods reachable from m through calls
\* of methods of the same class, so usage[c] is within usage[m] for every
\* method c that m calls.
C25_UsageIsTheReachableUnion ==
    pure_out.done =>
       \A m \in UsageNames :
          /\ pure_out.value.usage[m]
                = UNION {pure_in.fields[r] \cup pure_in.self_calls[r] :
                            r \in ReachableFrom({m})}
          /\ \A c \in pure_in.self_calls[m] :
                pure_out.value.usage[c] \subseteq pure_out.value.usage[m]

\* C26: the propagation loop of _build_field_usage_map comes to an end for
\* every class, and every pass but the last one enlarges the field-use set
\* of some method.
C26_PropagationTerminates ==
    /\ (pure_out.value.pc # "class") ~> pure_out.done
    /\ [][(pure_out.value.pc = "while" /\ ~pure_out'.done) => pure_out'.value.grew]_vars

\* the loop has ended for a class with two methods that call each other, one
\* of them reading a field the other one does not read itself
C26_Witness ==
    /\ pure_out.done
    /\ \E m, c \in UsageNames :
          /\ m # c /\ c \in pure_in.self_calls[m] /\ m \in pure_in.self_calls[c]
          /\ pure_in.fields[c] # {} /\ pure_in.fields[m] = {}
          /\ pure_in.fields[c] \subseteq pure_out.value.usage[m]


\* the lexical nesting depth of statement i: the if/for/while/try statements
\* it lies in, itself included; an elif stands at the level of its if
RECURSIVE StmtDepth(_, _)
StmtDepth(body, i) ==
    IF i = 0 THEN 0
    ELSE StmtDepth(body, body[i].parent)
           + (IF body[i].kind \in BranchKinds /\ ~(body[i].kind = "if" /\ body[i].orelse)
              THEN 1 ELSE 0)

MaxDepth(body) ==
    IF body = <<>> THEN 0
    ELSE CHOOSE d \in {StmtDepth(body, i) : i \in 1..Len(body)} :
            \A i \in 1..Len(body) : StmtDepth(body, i) <= d

\* C27: detect_branches emits 'Too Many Branches' for a method that is no
\* property and no get_/set_/is_ method exactly when its branch count is
\* above MAX_BRANCHES or its deepest lexical nesting of if/for/while/try
\* statements is above 3; statements that follow one another at the same
\* level do not add to the depth.
C27_BranchesFlaggedByCountOrDepth ==
    (pure_out.done /\ ~pure_in.method.isProperty /\ pure_in.method.name = "run") =>
       ((pure_out.value.smells # <<>>)
          <=> (\/ pure_out.value.count > (IF pure_in.configured THEN 2 ELSE 10)
               \/ MaxDepth(pure_in.body) > 3))


\* the lines of a file that are not blank, do not start with '#' and are not
\* in a docstring; inside tells whether line n + 1 starts in a docstring. A
\* line of three quotes opens or closes one, "'''Doc.'''" opens and closes
\* one, "ends.'''" closes the one it is in.
RECURSIVE Counted(_, _)
Counted(lines, n) ==
    IF n = 0 THEN [count |-> 0, inside |-> FALSE]
    ELSE CHOOSE r \in
            {CASE lines[n] \in {"", "# note"} -> before
               [] lines[n] = "'''" -> [before EXCEPT !.inside = ~@]
               [] lines[n] = "'''Doc.'''" -> before
               [] lines[n] = "ends.'''" /\ before.inside -> [before EXCEPT !.inside = FALSE]
               [] OTHER -> IF before.inside THEN before
                           ELSE [before EXCEPT !.count = @ + 1] :
                before \in {Counted(lines, n - 1)}} : TRUE

\* C28: the meaningful lines detect_file_length counts are the lines that
\* are not blank, do not start with '#' and are not inside a triple-quoted
\* docstring; a docstring that opens and closes on one line ends on that
\* line.
C28_MeaningfulLinesAreOutsideDocstrings ==
    pure_out.value.length_i = Len(pure_in) =>
       pure_out.value.length.meaningful_lines = Counted(pure_in, Len(pure_in)).count

\* C29: the line classifiers of detect_loc and detect_file_length stay in
\* step: after the same number of lines both are in the same docstring
\* state, and at the end the meaningful lines of File Length are the
\* code_lines + import_lines of LOC.
C29_ClassifiersStayInStep ==
    /\ pure_out.value.loc_i = pure_out.value.length_i =>
          pure_out.value.loc.in_docstring = pure_out.value.length.in_docstring
    /\ pure_out.done =>
          pure_out.value.length.meaningful_lines
             = pure_out.value.loc.code + pure_out.value.loc.import

\* both classifiers have read a file with a docstring that holds an import
\* line, and a statement after it
C29_Witness ==
    /\ pure_out.done
    /\ pure_in = <<"'''", "import os", "'''", "x = 1">>
    /\ pure_out.value.loc.doc = 3
    /\ pure_out.value.length.meaningful_lines = 1


\* C30: no detection rule changes the model it reads: the dependency graph,
\* the module-function, API-usage and external-dependency tables of the
\* architectural detector and the class, module and file-path tables and the
\* dependency graph of the structural detector are the same after the
\* detection rules as before them, and the finding list only grows at its
\* end.
C30_RulesLeaveTheModelAlone ==
    [][/\ (arch_pc = "detect" /\ arch_pc' # "detect") =>
             /\ module_dependencies' = module_dependencies
             /\ module_functions' = module_functions
             /\ api_usage' = api_usage
             /\ external_dependencies' = external_dependencies
             /\ file_paths' = file_paths
             /\ IsPrefix(architectural_smells, architectural_smells')
       /\ (struct_pc = "detect" /\ struct_pc' # "detect") =>
             /\ class_info' = class_info
             /\ module_info' = module_info
             /\ dependency_graph' = dependency_graph
             /\ struct_file_paths' = struct_file_paths
             /\ IsPrefix(structural_smells, structural_smells')]_vars

====
